---- MODULE Spec2Model ----
(***************************************************************************)
(* Model of the fittrack-goal-tracker REST backend: the access-control     *)
(* gate (protect), the auth controllers (registerUser, loginUser), the     *)
(* goal and progress controllers, the three Mongoose schemas and the       *)
(* global error handler of server.js.                                      *)
(*                                                                         *)
(* Strings whose content the code inspects (emails, passwords, titles,     *)
(* descriptions) are sequences of one-character strings.  Times are whole  *)
(* days.  ObjectIds are naturals from 1; MalformedId is a path     *)
(* parameter that is no ObjectId.                                          *)
(***************************************************************************)
EXTENDS Naturals, Sequences, FiniteSets

\* ---------------------------------------------------------------- bounds
MaxUsers == 2
MaxGoals == 2
MaxProgress == 2
MaxTime == 2
GateMaxGoals == 1
GateMaxProgress == 1
MaxHandlers == 2
MaxCalls == 2

\* ------------------------------------------------------ program constants
\* process.env.JWT_EXPIRES_IN || '1d', in days
JWT_EXPIRES_IN == 1
PasswordMinLength == 8
TitleMaxLength == 150
DescriptionMaxLength == 500
NotesMaxLength == 500

\* An optional value: Absent is JavaScript's undefined (a field the request
\* body does not carry, a document path that is not set), Some(v) a value.
Absent == <<>>
Some(v) == <<v>>
Val(o) == o[1]

\* ------------------------------------------------------------- strings
Str(n, c) == [i \in 1..n |-> c]

IsSpace(c) == c = " "

RECURSIVE TrimLeft(_)
TrimLeft(s) == IF s # <<>> /\ IsSpace(Head(s)) THEN TrimLeft(Tail(s)) ELSE s

RECURSIVE TrimRight(_)
TrimRight(s) ==
  IF s # <<>> /\ IsSpace(s[Len(s)]) THEN TrimRight(SubSeq(s, 1, Len(s) - 1)) ELSE s

\* String.prototype.trim, Mongoose's trim setter
Trim(s) == TrimRight(TrimLeft(s))

LowerChar(c) ==
  CASE c = "A" -> "a"
    [] c = "B" -> "b"
    [] c = "X" -> "x"
    [] OTHER -> c

\* Mutant of toLowerCase: the string is left as it is
toLowerCaseKeepsCase(s) == s

\* String.prototype.toLowerCase, Mongoose's lowercase setter
toLowerCase(s) == [i \in 1..Len(s) |-> LowerChar(s[i])]

\* /^\S+@\S+\.\S+$/
MatchesEmailRegex(s) ==
  /\ \A i \in 1..Len(s) : ~IsSpace(s[i])
  /\ \E i \in 2..Len(s) : \E j \in (i + 2)..(Len(s) - 1) : s[i] = "@" /\ s[j] = "."

\* !x of JavaScript for a body field that is undefined, a string or a
\* number other than 0
Falsy(o) == o = Absent \/ Val(o) = <<>>

\* A body field that JSON gives as a number, 123: no sequence of characters
JsonNumber == <<"123 (number)">>

\* typeof v === 'string'
IsString(v) == v # JsonNumber


\* process.env.NODE_ENV || 'development'
NODE_ENV == "development"

\* ------------------------------------------------------------ variables
VARIABLES
  users,          \* the users collection
  goals,          \* the goals collection
  progress,       \* the progresses collection
  goalCount,      \* goal documents created so far (ObjectIds are never reused)
  progressCount,  \* progress documents created so far
  now,            \* Date.now(), in days
  registered,     \* the registrations answered 201: payload and account created
  req,            \* the request handled last
  reqUser,        \* req.user.id the controller of that request ran with
  resp,           \* the response to that request
  failed,         \* the store or runtime call that failed while handling it, "none" if none
  proc,           \* the Node process: its environment and how far server.js has run
  inflight,       \* the handlers that wait on a store call, when requests overlap
  client          \* the browser: localStorage, the AuthProvider state, the calls in flight

vars ==
  <<users, goals, progress, goalCount, progressCount, now, registered, req, reqUser, resp,
    failed, proc, inflight, client>>
stores == <<users, goals, progress, goalCount, progressCount>>

\* ------------------------------------------------------------- process
\* phase: how far server.js has run ("start", "routesLoaded", "connectCalled",
\* "listening", "exited"); db: the state of mongoose.connect ("none",
\* "connecting", "connected"); exitCode: the code of process.exit, 0 before.
Process(phase, db, exitCode, secret, uri) ==
  [phase |-> phase, db |-> db, exitCode |-> exitCode, JWT_SECRET |-> secret, MONGODB_URI |-> uri]

\* The process once server.js has run with both variables set and the store
\* has connected
Running == Process("listening", "connected", 0, Some(<<"s">>), Some(<<"m">>))

\* app.listen has been called and the store answers
Serving == proc.phase = "listening" /\ proc.db = "connected"

\* A request handled with no call failing
Served == Serving /\ failed' = "none" /\ UNCHANGED <<proc, inflight, client>>

\* No request waits on a store call
NoHandlers == {}

\* A localStorage value or a React state that holds a token: <<>> for null
NoToken == <<>>

\* The browser: localStorage's authToken, the state of AuthProvider (token,
\* isAuthenticated, isLoading, error as useState initialises them), whether
\* its mount effect has run, the API calls in flight and the fetchError of
\* DashboardPage
Client(authToken) ==
  [authToken |-> authToken, token |-> NoToken, isAuthenticated |-> FALSE,
   isLoading |-> TRUE, error |-> <<>>, mounted |-> FALSE,
   calls |-> {}, fetchError |-> <<>>]

\* No page is open
NoClient == Client(NoToken)

\* ------------------------------------------------------------- requests
EmptyBody ==
  [email |-> Absent, password |-> Absent,
   title |-> Absent, description |-> Absent, status |-> Absent, targetDate |-> Absent,
   date |-> Absent, notes |-> Absent, value |-> Absent,
   userId |-> Absent, _id |-> Absent]

\* A path parameter that mongoose.Types.ObjectId.isValid rejects
MalformedId == 0
NoId == MalformedId

Request(op, header, id, body) == [op |-> op, header |-> header, id |-> id, body |-> body]

NoRequest == Request("none", <<>>, NoId, EmptyBody)

\* ------------------------------------------------------------ responses
\* message: the parts of the message string; stack: the source line that
\* constructed the Error (what err.stack tells a client), 0 when not sent.
Response(status, message, stack, token, goalDocs, progressDocs) ==
  [status |-> status, message |-> message, stack |-> stack,
   token |-> token, goals |-> goalDocs, progress |-> progressDocs]

NoResponse == Response(0, <<>>, 0, Absent, <<>>, <<>>)

\* An Error object: statusCode 0 is an Error without a statusCode property.
Error(statusCode, message, line) == [statusCode |-> statusCode, message |-> message, line |-> line]

\* server.js global error handler
ErrorHandler(err, env) ==
  Response(IF err.statusCode # 0 THEN err.statusCode ELSE 500,
           IF err.message # <<>> THEN err.message ELSE <<"Internal Server Error">>,
           IF env = "development" THEN err.line ELSE 0,
           Absent, <<>>, <<>>)

\* res.status(code).json(...)
Json(status, token, goalDocs, progressDocs) ==
  Response(status, <<>>, 0, token, goalDocs, progressDocs)


\* --------------------------------------------------------------- tokens
\* A JSON Web Token: the key it is signed with, the payload's userId (Absent
\* when the payload carries none) and exp.
Token(key, userId, exp) == [signedWith |-> key, userId |-> userId, exp |-> exp]

\* The empty string where a token is expected
EmptyString == Token("", Absent, 0)

\* Mutant of generateToken: expiresIn is left out of the expiry
generateTokenNoLifetime(userId, t) == Token("JWT_SECRET", Some(userId), t)

\* jwt.sign({ userId }, JWT_SECRET, { expiresIn: JWT_EXPIRES_IN })
generateToken(userId, t) == Token("JWT_SECRET", Some(userId), t + JWT_EXPIRES_IN)

\* Mutant of jwtExpired: a token is still taken at the instant of its exp
jwtExpiredLate(token, t) == t > token.exp

\* jwt.verify: the clock has reached exp (TokenExpiredError)
jwtExpired(token, t) == t >= token.exp

\* jwt.verify(token, JWT_SECRET): the message of the error it throws, "" if none
jwtVerify(token, t) ==
  IF token.signedWith # "JWT_SECRET" THEN "invalid signature"
  ELSE IF jwtExpired(token, t) THEN "jwt expired"
  ELSE ""

\* ---------------------------------------------------------------- users
\* bcryptjs.hash(password, genSalt(12))
bcryptHash(password) == [alg |-> "bcrypt", cost |-> 12, of |-> password]

\* bcryptjs.compare(candidatePassword, this.password)
comparePassword(user, candidatePassword) == user.password.of = candidatePassword

\* userSchemaDefinition.email: lowercase and trim setters (documents and queries)
EmailSetters(email) == Trim(toLowerCase(email))

\* userSchemaDefinition validators, in path order
UserValidationMessages(email, password) ==
  (IF email = <<>> THEN <<"Email is required">>
   ELSE IF ~MatchesEmailRegex(email) THEN <<"Please provide a valid email address">>
   ELSE <<>>)
  \o (IF Len(password) < PasswordMinLength
      THEN <<"Password must be at least 8 characters long">> ELSE <<>>)

\* User.findOne({ email })
FindUserByEmail(coll, email) == {u \in coll : u.email = EmailSetters(email)}

\* User.findById(id)
FindUserById(coll, id) == {u \in coll : u._id = id}

\* Mutant of DuplicateKey: the collection has no unique index on email
DuplicateKeyNoIndex(coll, email) == FALSE

\* userSchemaDefinition.email unique: true, the unique index of the users
\* collection: an insert of a document with that email is refused
DuplicateKey(coll, email) == \E u \in coll : u.email = email

\* The MongoServerError of a refused insert: code 11000, no statusCode
DuplicateKeyError == Error(0, <<"E11000 duplicate key error">>, 73)

\* ----------------------------------------------------------------- gate
\* req.headers.authorization as split(' ') sees it: <<>> when the header is
\* not sent, else the space-separated parts.
HeaderToken(header) ==
  IF Len(header) >= 2 /\ header[1] = "Bearer" THEN header[2] ELSE EmptyString

NoError == Error(0, <<>>, 0)

\* The try block of protect: the message of the error thrown, "" if none
protectThrows(token, coll, t) ==
  IF jwtVerify(token, t) # "" THEN jwtVerify(token, t)
  ELSE IF token.userId = Absent THEN "Invalid token payload"
  ELSE IF FindUserById(coll, Val(token.userId)) = {}
  THEN "User belonging to this token no longer exists"
  ELSE ""

\* Mutant of protectCatch: the error caught is passed on as it is
protectCatchPassesOn(message) == Error(401, <<message>>, 77)

\* The catch block of protect: the error passed on for the error caught
protectCatch(message) == Error(401, <<"Not authorized, token failed">>, 77)

\* protect: the error passed to next(), or NoError and the id put in req.user
protect(header, coll, t) ==
  LET token == HeaderToken(header) IN
  IF token = EmptyString
  THEN [err |-> Error(401, <<"Not authorized, no token">>, 41), userId |-> Absent]
  ELSE IF protectThrows(token, coll, t) # ""
       THEN [err |-> protectCatch(protectThrows(token, coll, t)), userId |-> Absent]
       ELSE [err |-> NoError, userId |-> token.userId]

\* What a controller hands back: the response and the collections after it.
Outcome(res, g, p, gc, pc) ==
  [resp |-> res, goals |-> g, progress |-> p, goalCount |-> gc, progressCount |-> pc]

\* next(error) from a controller: nothing was written
Fail(err) == Outcome(ErrorHandler(err, NODE_ENV), goals, progress, goalCount, progressCount)

\* A protected route: router.<method>(path, protect, controller)
Protected(request, outcome) ==
  LET gate == protect(request.header, users, now) IN
  /\ Served
  /\ req = NoRequest
  /\ req' = request
  /\ UNCHANGED <<users, now, registered>>
  /\ IF gate.err # NoError
     THEN /\ resp' = ErrorHandler(gate.err, NODE_ENV)
          /\ reqUser' = Absent
          /\ UNCHANGED <<goals, progress, goalCount, progressCount>>
     ELSE \E o \in outcome[Val(gate.userId)] :
          /\ resp' = o.resp
          /\ reqUser' = gate.userId
          /\ goals' = o.goals
          /\ progress' = o.progress
          /\ goalCount' = o.goalCount
          /\ progressCount' = o.progressCount

\* ------------------------------------------------------ auth controllers
\* email.toLowerCase() of a body field that is no string: the TypeError thrown
NotAFunctionError(line) == Error(0, <<"email.toLowerCase is not a function">>, line)

\* registerUser, line 61 with an email that is no string: the error its
\* catch block passes on
registerUserThrows == NotAFunctionError(61)

\* registerUser: the response and the users collection after it
registerUserOutcome(body, coll, t) ==
  IF Falsy(body.email) \/ Falsy(body.password)
  THEN [resp |-> ErrorHandler(Error(400, <<"Email and password are required.">>, 55), NODE_ENV),
        users |-> coll]
  ELSE IF ~IsString(Val(body.email))
  THEN [resp |-> ErrorHandler(registerUserThrows, NODE_ENV), users |-> coll]
  ELSE
    LET lowerCaseEmail == toLowerCase(Val(body.email))
        password == Val(body.password)
        stored == EmailSetters(lowerCaseEmail)
        messages == UserValidationMessages(stored, password)
        newUser == [_id |-> Cardinality(coll) + 1, email |-> stored,
                    password |-> bcryptHash(password)]
    IN
    IF FindUserByEmail(coll, lowerCaseEmail) # {}
    THEN [resp |-> ErrorHandler(Error(409, <<"Email already in use.">>, 66), NODE_ENV),
          users |-> coll]
    ELSE IF messages # <<>>
    THEN [resp |-> ErrorHandler(Error(400, <<"Validation Failed: ">> \o messages, 90), NODE_ENV),
          users |-> coll]
    ELSE IF DuplicateKey(coll, stored)
    THEN [resp |-> ErrorHandler(DuplicateKeyError, NODE_ENV),
          users |-> coll]
    ELSE [resp |-> Json(201, Some(generateToken(newUser._id, t)), <<>>, <<>>),
          users |-> coll \cup {newUser}]

\* loginUser, no user with that email
UserNotFoundError == Error(401, <<"Invalid credentials.">>, 130)

\* Mutant of PasswordMismatchError: the message names the wrong factor
PasswordMismatchErrorNamesFactor == Error(401, <<"Incorrect password.">>, 141)

\* loginUser, comparePassword answered false
PasswordMismatchError == Error(401, <<"Invalid credentials.">>, 141)

\* loginUser: the response
loginUserResponse(body, coll, t) ==
  IF Falsy(body.email) \/ Falsy(body.password)
  THEN ErrorHandler(Error(400, <<"Email and password are required.">>, 115), NODE_ENV)
  ELSE IF ~IsString(Val(body.email))
  THEN ErrorHandler(NotAFunctionError(121), NODE_ENV)
  ELSE
    LET found == FindUserByEmail(coll, toLowerCase(Val(body.email))) IN
    IF found = {}
    THEN ErrorHandler(UserNotFoundError, NODE_ENV)
    ELSE LET user == CHOOSE u \in found : TRUE IN
         IF ~comparePassword(user, Val(body.password))
         THEN ErrorHandler(PasswordMismatchError, NODE_ENV)
         ELSE Json(200, Some(generateToken(user._id, t)), <<>>, <<>>)


\* ---------------------------------------------------------------- dates
\* A date string of a request body: one digit names that day; anything else
\* does not cast to a Date.
IsDateString(s) == Len(s) = 1 /\ s[1] \in {"0", "1", "2", "3"}

\* new Date(s), in days
CastDate(s) ==
  CASE s[1] = "0" -> 0
    [] s[1] = "1" -> 1
    [] s[1] = "2" -> 2
    [] s[1] = "3" -> 3

\* ----------------------------------------------------------- goal schema
GoalStatuses == {"active", "completed"}

\* goalSchemaDefinition setters and defaults applied to the fields supplied:
\* title and description are trimmed, targetDate is cast when it can be
CastGoalFields(f) ==
  [title |-> IF f.title = Absent THEN Absent ELSE Some(Trim(Val(f.title))),
   description |-> IF f.description = Absent THEN Absent ELSE Some(Trim(Val(f.description))),
   status |-> f.status,
   targetDate |-> IF f.targetDate = Absent \/ ~IsDateString(Val(f.targetDate))
                  THEN Absent ELSE Some(CastDate(Val(f.targetDate)))]

TargetDateCastFails(f) == f.targetDate # Absent /\ ~IsDateString(Val(f.targetDate))

\* Mutant of GoalFieldMessages: the title has no maxlength validator
GoalFieldMessagesNoTitleLimit(c) ==
  (IF c.title # Absent /\ Val(c.title) = <<>> THEN <<"Goal title cannot be empty">> ELSE <<>>)
  \o (IF c.description # Absent /\ Len(Val(c.description)) > DescriptionMaxLength
      THEN <<"Goal description cannot exceed 500 characters">> ELSE <<>>)
  \o (IF c.status # Absent /\ Val(c.status) \notin GoalStatuses
      THEN <<Val(c.status), " is not a supported goal status. Please use 'active' or 'completed'.">>
      ELSE <<>>)

\* goalSchemaDefinition validators on the supplied fields (c: the cast fields)
GoalFieldMessages(c) ==
  (IF c.title # Absent /\ Val(c.title) = <<>> THEN <<"Goal title cannot be empty">>
   ELSE IF c.title # Absent /\ Len(Val(c.title)) > TitleMaxLength
   THEN <<"Goal title cannot exceed 150 characters">> ELSE <<>>)
  \o (IF c.description # Absent /\ Len(Val(c.description)) > DescriptionMaxLength
      THEN <<"Goal description cannot exceed 500 characters">> ELSE <<>>)
  \o (IF c.status # Absent /\ Val(c.status) \notin GoalStatuses
      THEN <<Val(c.status), " is not a supported goal status. Please use 'active' or 'completed'.">>
      ELSE <<>>)

CastMessage(f) ==
  IF TargetDateCastFails(f) THEN <<"Cast to date failed for path targetDate">> ELSE <<>>

\* handleValidationError
handleValidationError(messages, line) == Error(400, <<"Validation Failed: ">> \o messages, line)

\* Mutant of FindGoal: the filter leaves out the owner
FindGoalOfAnyOwner(coll, id, userId) == {g \in coll : g._id = id}

\* Mutant of FindGoal: the filter matches the owner and any id but the one asked
FindGoalOfOwnerOnly(coll, id, userId) ==
  {g \in coll : g.userId = userId /\ (g._id = id \/ \A x \in coll : x._id # id)}

\* Goal.findOne({ _id: id, userId })
FindGoal(coll, id, userId) == {g \in coll : g._id = id /\ g.userId = userId}

\* Mutant of isValidObjectId: every path parameter is taken for an id
isValidObjectIdAlways(id) == TRUE

\* mongoose.Types.ObjectId.isValid(id)
isValidObjectId(id) == id # MalformedId

InvalidIdError(line) == Error(400, <<"Invalid Goal ID format.">>, line)

\* Mutant of Before: only the first sort key is compared
BeforeByFirstKey(k1, k2) == k1 # <<>> /\ Head(k1) > Head(k2)

\* Mutant of SortedDesc: the documents are listed smallest key first
SortedAscending(S, key) ==
  {q \in [1..Cardinality(S) -> S] :
     /\ \A i, j \in DOMAIN q : i # j => q[i] # q[j]
     /\ \A i, j \in DOMAIN q : i < j => key[q[i]][1] <= key[q[j]][1]}

\* The sequences that list the documents of S by key, largest first; documents
\* of equal key come in any order.
RECURSIVE Before(_, _)
Before(k1, k2) ==
  IF k1 = <<>> THEN FALSE
  ELSE Head(k1) > Head(k2) \/ (Head(k1) = Head(k2) /\ Before(Tail(k1), Tail(k2)))

SortedDesc(S, key) ==
  {q \in [1..Cardinality(S) -> S] :
     /\ \A i, j \in DOMAIN q : i # j => q[i] # q[j]
     /\ \A i, j \in DOMAIN q : i < j => ~Before(key[q[j]], key[q[i]])}

\* ------------------------------------------------------ goal controllers
\* createGoal
\* Mutant of goalData: the body is spread over the owner
goalDataFromBody(userId, body) ==
  [userId |-> IF body.userId = Absent THEN userId ELSE Val(body.userId),
   title |-> body.title, description |-> body.description,
   status |-> body.status, targetDate |-> body.targetDate]

\* goalData of createGoal: the owner is req.user.id, the other four fields
\* are the ones destructured from the body
goalData(userId, body) ==
  [userId |-> userId,
   title |-> body.title, description |-> body.description,
   status |-> body.status, targetDate |-> body.targetDate]

createGoal(userId, body) ==
  LET data == goalData(userId, body)
      fields == [title |-> data.title, description |-> data.description,
                 status |-> data.status, targetDate |-> data.targetDate]
      c == CastGoalFields(fields)
      messages == CastMessage(fields) \o GoalFieldMessages(c)
      newGoal == [_id |-> goalCount + 1, userId |-> data.userId,
                  title |-> Val(c.title), description |-> c.description,
                  status |-> IF c.status = Absent THEN "active" ELSE Val(c.status),
                  targetDate |-> c.targetDate,
                  createdAt |-> now]
  IN
  IF Falsy(body.title)
  THEN {Fail(Error(400, <<"Goal title is required.">>, 39))}
  ELSE IF messages # <<>>
  THEN {Fail(handleValidationError(messages, 59))}
  ELSE {Outcome(Json(201, Absent, <<newGoal>>, <<>>),
                goals \cup {newGoal}, progress, goalCount + 1, progressCount)}

\* getGoals
getGoals(userId) ==
  {Outcome(Json(200, Absent, list, <<>>), goals, progress, goalCount, progressCount) :
     list \in SortedDesc({g \in goals : g.userId = userId},
                          [g \in goals |-> <<g.createdAt>>])}

\* getGoalById
getGoalById(userId, id) ==
  LET found == FindGoal(goals, id, userId) IN
  IF ~isValidObjectId(id) THEN {Fail(InvalidIdError(98))}
  ELSE IF found = {} THEN {Fail(Error(404, <<"Goal not found.">>, 107))}
  ELSE {Outcome(Json(200, Absent, <<CHOOSE g \in found : TRUE>>, <<>>),
                goals, progress, goalCount, progressCount)}


\* Mutant of ApplyUpdate: the document is overwritten, not $set
ApplyUpdateOverwrites(g, c) ==
  [g EXCEPT !.title = IF c.title = Absent THEN @ ELSE Val(c.title),
            !.description = c.description,
            !.status = IF c.status = Absent THEN "active" ELSE Val(c.status),
            !.targetDate = c.targetDate]

\* { $set: updateData } applied to a goal document
ApplyUpdate(g, c) ==
  [g EXCEPT !.title = IF c.title = Absent THEN @ ELSE Val(c.title),
            !.description = IF c.description = Absent THEN @ ELSE c.description,
            !.status = IF c.status = Absent THEN @ ELSE Val(c.status),
            !.targetDate = IF c.targetDate = Absent THEN @ ELSE c.targetDate]

\* updateGoal
updateGoal(userId, id, body) ==
  LET updateData == [title |-> body.title, description |-> body.description,
                     status |-> body.status, targetDate |-> body.targetDate]
      c == CastGoalFields(updateData)
      messages == GoalFieldMessages(c)
      found == FindGoal(goals, id, userId)
  IN
  IF ~isValidObjectId(id) THEN {Fail(InvalidIdError(133))}
  ELSE IF body.title # Absent /\ Trim(Val(body.title)) = <<>>
  THEN {Fail(Error(400, <<"Goal title cannot be empty.">>, 143))}
  ELSE IF \A k \in DOMAIN updateData : updateData[k] = Absent
  THEN {Fail(Error(400, <<"No update fields provided.">>, 155))}
  ELSE IF TargetDateCastFails(updateData)
  THEN {Fail(Error(0, CastMessage(updateData), 160))}
  ELSE IF messages # <<>>
  THEN {Fail(handleValidationError(messages, 177))}
  ELSE IF found = {}
  THEN {Fail(Error(404, <<"Goal not found.">>, 168))}
  ELSE LET g == CHOOSE x \in found : TRUE
           updatedGoal == ApplyUpdate(g, c)
       IN {Outcome(Json(200, Absent, <<updatedGoal>>, <<>>),
                   (goals \ {g}) \cup {updatedGoal}, progress, goalCount, progressCount)}

\* Mutant of DeleteManyProgress: the filter leaves out the goal
DeleteManyProgressOfUser(coll, id, userId) == {p \in coll : p.userId # userId}

\* Progress.deleteMany({ goalId: id, userId })
DeleteManyProgress(coll, id, userId) == {p \in coll : ~(p.goalId = id /\ p.userId = userId)}

\* deleteGoal
deleteGoal(userId, id) ==
  LET found == FindGoal(goals, id, userId) IN
  IF ~isValidObjectId(id) THEN {Fail(InvalidIdError(197))}
  ELSE IF found = {} THEN {Fail(Error(404, <<"Goal not found.">>, 207))}
  ELSE {Outcome(Json(204, Absent, <<>>, <<>>),
                goals \ found, DeleteManyProgress(progress, id, userId),
                goalCount, progressCount)}

\* progressSchemaDefinition validators, in path order
ProgressMessages(body) ==
  (IF body.date # Absent /\ ~IsDateString(Val(body.date))
   THEN <<"Cast to date failed for path date">> ELSE <<>>)
  \o (IF body.notes # Absent /\ Len(Trim(Val(body.notes))) > NotesMaxLength
      THEN <<"Progress notes cannot exceed 500 characters">> ELSE <<>>)

\* logProgress
logProgress(userId, goalId, body) ==
  LET messages == ProgressMessages(body)
      newProgressLog ==
        [_id |-> progressCount + 1, goalId |-> goalId, userId |-> userId,
         date |-> IF body.date = Absent THEN now ELSE CastDate(Val(body.date)),
         notes |-> IF body.notes = Absent THEN Absent ELSE Some(Trim(Val(body.notes))),
         value |-> body.value,
         createdAt |-> now]
  IN
  IF ~isValidObjectId(goalId) THEN {Fail(InvalidIdError(239))}
  ELSE IF FindGoal(goals, goalId, userId) = {}
  THEN {Fail(Error(404, <<"Target goal not found.">>, 247))}
  ELSE IF messages # <<>>
  THEN {Fail(handleValidationError(messages, 268))}
  ELSE {Outcome(Json(201, Absent, <<>>, <<newProgressLog>>),
                goals, progress \cup {newProgressLog}, goalCount, progressCount + 1)}

\* Mutant of FindProgress: the filter leaves out the goal
FindProgressOfUser(coll, goalId, userId) == {p \in coll : p.userId = userId}

\* Progress.find({ goalId, userId })
FindProgress(coll, goalId, userId) == {p \in coll : p.goalId = goalId /\ p.userId = userId}

\* getGoalProgress
getGoalProgress(userId, goalId) ==
  IF ~isValidObjectId(goalId) THEN {Fail(InvalidIdError(287))}
  ELSE IF FindGoal(goals, goalId, userId) = {}
  THEN {Fail(Error(404, <<"Target goal not found.">>, 295))}
  ELSE {Outcome(Json(200, Absent, <<>>, list), goals, progress, goalCount, progressCount) :
          list \in SortedDesc(FindProgress(progress, goalId, userId),
                              [p \in progress |-> <<p.date, p.createdAt>>])}


\* -------------------------------------------------------------- actions
Init ==
  /\ users = {}
  /\ goals = {}
  /\ progress = {}
  /\ goalCount = 0
  /\ progressCount = 0
  /\ now = 0
  /\ registered = {}
  /\ req = NoRequest
  /\ reqUser = Absent
  /\ resp = NoResponse
  /\ failed = "none"
  /\ proc = Running
  /\ inflight = NoHandlers
  /\ client = NoClient

\* POST /auth/register
RegisterUser(body) ==
  LET o == registerUserOutcome(body, users, now) IN
  /\ Served
  /\ req = NoRequest
  /\ req' = Request("registerUser", <<>>, NoId, body)
  /\ reqUser' = Absent
  /\ resp' = o.resp
  /\ users' = o.users
  /\ registered' =
       IF o.resp.status = 201
       THEN registered \cup {[email |-> Val(body.email), password |-> Val(body.password),
                              userId |-> (CHOOSE u \in o.users \ users : TRUE)._id]}
       ELSE registered
  /\ UNCHANGED <<goals, progress, goalCount, progressCount, now>>

\* POST /auth/login
LoginUser(body) ==
  /\ Served
  /\ req = NoRequest
  /\ req' = Request("loginUser", <<>>, NoId, body)
  /\ reqUser' = Absent
  /\ resp' = loginUserResponse(body, users, now)
  /\ UNCHANGED <<stores, now, registered>>

\* POST /goals
CreateGoal(header, body) ==
  Protected(Request("createGoal", header, NoId, body), [u \in {x._id : x \in users} |-> createGoal(u, body)])

\* GET /goals
GetGoals(header) ==
  Protected(Request("getGoals", header, NoId, EmptyBody), [u \in {x._id : x \in users} |-> getGoals(u)])

\* GET /goals/:id
GetGoalById(header, id) ==
  Protected(Request("getGoalById", header, id, EmptyBody), [u \in {x._id : x \in users} |-> getGoalById(u, id)])

\* PUT /goals/:id
UpdateGoal(header, id, body) ==
  Protected(Request("updateGoal", header, id, body), [u \in {x._id : x \in users} |-> updateGoal(u, id, body)])

\* DELETE /goals/:id
DeleteGoal(header, id) ==
  Protected(Request("deleteGoal", header, id, EmptyBody), [u \in {x._id : x \in users} |-> deleteGoal(u, id)])

\* POST /goals/:goalId/progress
LogProgress(header, id, body) ==
  Protected(Request("logProgress", header, id, body), [u \in {x._id : x \in users} |-> logProgress(u, id, body)])

\* GET /goals/:goalId/progress
GetGoalProgress(header, id) ==
  Protected(Request("getGoalProgress", header, id, EmptyBody), [u \in {x._id : x \in users} |-> getGoalProgress(u, id)])

\* The response has been sent: the server waits for the next request
Respond ==
  /\ req # NoRequest
  /\ req' = NoRequest
  /\ reqUser' = Absent
  /\ resp' = NoResponse
  /\ failed' = "none"
  /\ UNCHANGED <<stores, now, registered, proc, inflight, client>>

\* A day passes
Tick ==
  /\ req = NoRequest
  /\ now < MaxTime
  /\ now' = now + 1
  /\ UNCHANGED <<stores, registered, req, reqUser, resp, failed, proc, inflight, client>>

\* --------------------------------------------------------------- inputs
EmailA == <<"a", "@", "x", ".", "c">>
EmailAUpper == <<"A", "@", "X", ".", "c">>
EmailB == <<"b", "@", "x", ".", "c">>
EmailNoAt == <<"a", "b">>
Password1 == Str(PasswordMinLength, "p")
Password2 == Str(PasswordMinLength, "q")
PasswordShort == Str(PasswordMinLength - 1, "p")

AuthBody(email, password) == [EmptyBody EXCEPT !.email = email, !.password = password]

AuthBodies ==
  {AuthBody(e, p) :
     e \in {Absent, Some(EmailA), Some(EmailAUpper), Some(EmailB), Some(EmailNoAt)},
     p \in {Absent, Some(Password1), Some(Password2), Some(PasswordShort)}}

\* The tokens a client may present: every token the service can have issued,
\* tokens for the same accounts with other expiry times, a token signed with
\* another key and a token of ours whose payload has no userId.
LastExpiry == MaxTime + JWT_EXPIRES_IN
SignedTokens == {Token("JWT_SECRET", Some(u), e) : u \in 1..MaxUsers, e \in 1..LastExpiry}
LongToken(u) == Token("JWT_SECRET", Some(u), LastExpiry)
ForgedToken == Token("other", Some(1), LastExpiry)
NoUserIdToken == Token("JWT_SECRET", Absent, LastExpiry)
Tokens == SignedTokens \cup {ForgedToken, NoUserIdToken}

Headers ==
  {<<>>, <<"Bearer">>, <<"Basic", LongToken(1)>>, <<"Bearer", EmptyString, LongToken(1)>>,
   <<"Bearer", LongToken(1), ForgedToken>>}
  \cup {<<"Bearer", t>> : t \in Tokens}

GoalBody(title, description, status, targetDate) ==
  [EmptyBody EXCEPT !.title = title, !.description = description,
                    !.status = status, !.targetDate = targetDate]

ProgressBody(date, notes, value) ==
  [EmptyBody EXCEPT !.date = date, !.notes = notes, !.value = value]

TitleOnly == GoalBody(Some(<<"R">>), Absent, Absent, Absent)
StatusOnly == GoalBody(Absent, Absent, Some("completed"), Absent)
ValueOnly == ProgressBody(Absent, Absent, Some(3))

\* Register, login and every protected route with every kind of Authorization
\* header, on one goal with one progress entry.
Next ==
  \/ \E b \in AuthBodies : Cardinality(users) < MaxUsers /\ RegisterUser(b)
  \/ \E b \in AuthBodies : LoginUser(b)
  \/ \E h \in Headers : goalCount < GateMaxGoals /\ CreateGoal(h, TitleOnly)
  \/ \E h \in Headers : GetGoals(h)
  \/ \E h \in Headers : GetGoalById(h, 1)
  \/ \E h \in Headers : UpdateGoal(h, 1, StatusOnly)
  \/ \E h \in Headers : DeleteGoal(h, 1)
  \/ \E h \in Headers : progressCount < GateMaxProgress /\ LogProgress(h, 1, ValueOnly)
  \/ \E h \in Headers : GetGoalProgress(h, 1)
  \/ Respond
  \/ Tick

Spec == Init /\ [][Next]_vars


\* Two accounts, each with a token that outlives the run
TwoAccounts == {AuthBody(Some(EmailA), Some(Password1)), AuthBody(Some(EmailB), Some(Password1))}
OwnerHeaders == {<<"Bearer", LongToken(u)>> : u \in 1..MaxUsers}

PathIds == 1..(MaxGoals + 1) \cup {MalformedId}

FullGoal == GoalBody(Some(<<"W">>), Some(<<"d">>), Some("completed"), Some(<<"1">>))
NoFields == EmptyBody
BlankTitle == GoalBody(Some(<<" ">>), Absent, Absent, Absent)
BadStatus == GoalBody(Absent, Absent, Some("paused"), Absent)
BadTargetDate == GoalBody(Absent, Absent, Absent, Some(<<"x">>))
LongTitle == GoalBody(Some(Str(TitleMaxLength + 1, "t")), Absent, Absent, Absent)
BadDate == ProgressBody(Some(<<"x">>), Absent, Some(3))

OwnershipUpdates == {StatusOnly, NoFields, BlankTitle, BadStatus, BadTargetDate, LongTitle}

\* Every goal and progress route by two accounts on each other's goals, on
\* ids that match no goal and on a malformed id.
NextGoals ==
  \/ \E b \in TwoAccounts : Cardinality(users) < MaxUsers /\ RegisterUser(b)
  \/ \E h \in OwnerHeaders, b \in {TitleOnly, NoFields} :
       goalCount < MaxGoals /\ CreateGoal(h, b)
  \/ \E h \in OwnerHeaders : GetGoals(h)
  \/ \E h \in OwnerHeaders, id \in PathIds : GetGoalById(h, id)
  \/ \E h \in OwnerHeaders, id \in PathIds, b \in OwnershipUpdates : UpdateGoal(h, id, b)
  \/ \E h \in OwnerHeaders, id \in PathIds : DeleteGoal(h, id)
  \/ \E h \in OwnerHeaders, id \in PathIds, b \in {ValueOnly, BadDate} :
       progressCount < MaxProgress /\ LogProgress(h, id, b)
  \/ \E h \in OwnerHeaders, id \in PathIds : GetGoalProgress(h, id)
  \/ Respond

SpecGoals == Init /\ [][NextGoals]_vars

\* The update bodies: every subset of the four fields, a title and a
\* description with surrounding spaces, and the bodies that are refused
PartialUpdates ==
  {GoalBody(t, d, st, td) :
     t \in {Absent, Some(<<"R">>), Some(<<" ", "W", " ">>)},
     d \in {Absent, Some(<<"d", " ">>)},
     st \in {Absent, Some("completed")},
     td \in {Absent, Some(<<"1">>)}}
  \cup {BlankTitle, BadStatus, BadTargetDate, LongTitle}

\* One account creating and updating its goals
NextUpdate ==
  \/ \E b \in {AuthBody(Some(EmailA), Some(Password1))} :
       Cardinality(users) < MaxUsers /\ RegisterUser(b)
  \/ \E h \in OwnerHeaders, b \in {TitleOnly, FullGoal} :
       goalCount < MaxGoals /\ CreateGoal(h, b)
  \/ \E h \in OwnerHeaders, id \in 1..MaxGoals, b \in PartialUpdates : UpdateGoal(h, id, b)
  \/ Respond

SpecUpdate == Init /\ [][NextUpdate]_vars

\* The titles a create-goal body may carry: none, empty, blank, short, padded,
\* of the greatest length allowed, that length within spaces, and one longer
CreateTitles ==
  {Absent, Some(<<>>), Some(<<" ">>), Some(<<" ", " ">>), Some(<<"R">>), Some(<<" ", "W", " ">>),
   Some(Str(TitleMaxLength, "t")), Some(<<" ">> \o Str(TitleMaxLength, "t") \o <<" ">>),
   Some(Str(TitleMaxLength + 1, "t")), Some(Str(TitleMaxLength + 1, "t") \o <<" ">>)}

CreateBodies ==
  {GoalBody(t, Absent, Absent, Absent) : t \in CreateTitles}
  \cup {GoalBody(t, Some(<<"d">>), Some("completed"), Some(<<"1">>)) : t \in CreateTitles}
  \cup {GoalBody(Some(<<"R">>), Absent, Some("paused"), Absent),
        GoalBody(Some(<<"R">>), Absent, Absent, Some(<<"x">>)),
        GoalBody(Some(<<"R">>), Some(Str(DescriptionMaxLength + 1, "d")), Absent, Absent)}

\* One account creating goals with every kind of title, and listing them
NextCreate ==
  \/ \E b \in {AuthBody(Some(EmailA), Some(Password1))} :
       Cardinality(users) < MaxUsers /\ RegisterUser(b)
  \/ \E h \in OwnerHeaders, b \in CreateBodies : goalCount < MaxGoals /\ CreateGoal(h, b)
  \/ \E h \in OwnerHeaders : GetGoals(h)
  \/ Respond

SpecCreate == Init /\ [][NextCreate]_vars

\* The tokens registerUser and loginUser can have issued to the first account
IssuedTokens == {generateToken(1, t) : t \in 0..MaxTime}
IssuedHeaders == {<<"Bearer", t>> : t \in IssuedTokens}

\* One account going through its goals' life: register, create a goal with
\* only a title, log progress with only a value, list it, delete the goal,
\* list again, while days pass.
NextScenario ==
  \/ \E b \in {AuthBody(Some(EmailA), Some(Password1))} :
       Cardinality(users) < MaxUsers /\ RegisterUser(b)
  \/ \E h \in IssuedHeaders : goalCount < MaxGoals /\ CreateGoal(h, TitleOnly)
  \/ \E h \in IssuedHeaders, id \in 1..MaxGoals :
       progressCount < MaxProgress /\ LogProgress(h, id, ValueOnly)
  \/ \E h \in IssuedHeaders, id \in 1..MaxGoals : GetGoalProgress(h, id)
  \/ \E h \in IssuedHeaders, id \in 1..MaxGoals : DeleteGoal(h, id)
  \/ Respond
  \/ Tick

SpecScenario == Init /\ [][NextScenario]_vars

\* Log-progress bodies: no date, the first day, a day ahead, and a date that
\* does not cast
DatedFirst == ProgressBody(Some(<<"0">>), Absent, Some(1))
DatedLast == ProgressBody(Some(<<"3">>), Some(<<" ", "n">>), Absent)
ProgressBodies == {ValueOnly, DatedFirst, DatedLast, BadDate}

\* Two accounts creating, updating, deleting and listing goals and logging
\* and listing progress on any goal id, over several days.
NextLists ==
  \/ \E b \in TwoAccounts : Cardinality(users) < MaxUsers /\ RegisterUser(b)
  \/ \E h \in OwnerHeaders : goalCount < MaxGoals /\ CreateGoal(h, TitleOnly)
  \/ \E h \in OwnerHeaders : GetGoals(h)
  \/ \E h \in OwnerHeaders, id \in 1..MaxGoals : UpdateGoal(h, id, StatusOnly)
  \/ \E h \in OwnerHeaders, id \in 1..MaxGoals : DeleteGoal(h, id)
  \/ \E h \in OwnerHeaders, id \in 1..MaxGoals, b \in ProgressBodies :
       progressCount < MaxProgress /\ LogProgress(h, id, b)
  \/ \E h \in OwnerHeaders, id \in 1..MaxGoals : GetGoalProgress(h, id)
  \/ Respond
  \/ Tick

SpecLists == Init /\ [][NextLists]_vars

\* Goal bodies with every kind of title, description, status and target date
FieldTitles ==
  {Absent, Some(<<>>), Some(<<" ">>), Some(<<" ", "W", " ">>),
   Some(Str(TitleMaxLength, "t")), Some(Str(TitleMaxLength + 1, "t"))}
FieldDescriptions ==
  {Absent, Some(<<" ", "d">>), Some(Str(DescriptionMaxLength + 1, "d"))}
FieldStatuses == {Absent, Some("completed"), Some("paused")}
FieldDates == {Absent, Some(<<"1">>), Some(<<"x">>)}
FieldBodies ==
  {GoalBody(t, d, st, td) :
     t \in FieldTitles, d \in FieldDescriptions, st \in FieldStatuses, td \in FieldDates}

\* One account creating and updating one goal with any body
NextFields ==
  \/ \E b \in {AuthBody(Some(EmailA), Some(Password1))} :
       users = {} /\ RegisterUser(b)
  \/ \E h \in OwnerHeaders, b \in FieldBodies : goalCount < GateMaxGoals /\ CreateGoal(h, b)
  \/ \E h \in OwnerHeaders, id \in 1..(GateMaxGoals + 1), b \in FieldBodies : UpdateGoal(h, id, b)
  \/ Respond

SpecFields == Init /\ [][NextFields]_vars

\* Register and login bodies with every kind of email and password: not
\* sent, empty, blank, a number, well formed, not an address, too short
InputEmails ==
  {Absent, Some(<<>>), Some(<<" ">>), Some(JsonNumber), Some(EmailA), Some(EmailB), Some(EmailNoAt)}
InputPasswords == {Absent, Some(<<>>), Some(Password1), Some(PasswordShort)}
InputBodies == {AuthBody(e, p) : e \in InputEmails, p \in InputPasswords}

\* Register and login with any body
NextAuthInputs ==
  \/ \E b \in InputBodies : Cardinality(users) < MaxUsers /\ RegisterUser(b)
  \/ \E b \in InputBodies : LoginUser(b)
  \/ Respond

SpecAuthInputs == Init /\ [][NextAuthInputs]_vars

\* ------------------------------------------------------- failing calls
\* The error a store call rejects with: no statusCode, the driver's message
StoreError == Error(0, <<"MongoNetworkError: connection closed">>, 0)

\* generateToken when jwt.sign throws: the error its catch block throws
TokenError == Error(0, <<"Failed to generate authentication token.">>, 34)

\* Mutant of comparePasswordWhenCompareFails: the failure counts as a match
comparePasswordWhenCompareFailsMatches == TRUE

\* comparePassword when bcryptjs.compare rejects: its catch block returns false
comparePasswordWhenCompareFails == FALSE

\* registerUser when call fails: the response and the users collection after
\* it; no outcome when the run does not come to that call
registerUserWhenFails(body, coll, t, call) ==
  LET normal == registerUserOutcome(body, coll, t) IN
  CASE call = "User.findOne" ->
         IF Falsy(body.email) \/ Falsy(body.password) \/ ~IsString(Val(body.email)) THEN {}
         ELSE {[resp |-> ErrorHandler(StoreError, NODE_ENV), users |-> coll]}
    [] call = "User.create" ->
         IF normal.resp.status # 201 THEN {}
         ELSE {[resp |-> ErrorHandler(StoreError, NODE_ENV), users |-> coll]}
    [] call = "jwt.sign" ->
         IF normal.resp.status # 201 THEN {}
         ELSE {[resp |-> ErrorHandler(TokenError, NODE_ENV), users |-> normal.users]}
    [] OTHER -> {}

\* loginUser when call fails: the response
loginUserWhenFails(body, coll, t, call) ==
  LET normal == loginUserResponse(body, coll, t)
      found == IF Falsy(body.email) \/ ~IsString(Val(body.email)) THEN {}
               ELSE FindUserByEmail(coll, toLowerCase(Val(body.email)))
  IN
  CASE call = "User.findOne" ->
         IF Falsy(body.email) \/ Falsy(body.password) \/ ~IsString(Val(body.email)) THEN {}
         ELSE {ErrorHandler(StoreError, NODE_ENV)}
    [] call = "bcryptjs.compare" ->
         IF Falsy(body.password) \/ found = {} THEN {}
         ELSE IF comparePasswordWhenCompareFails
              THEN {Json(200, Some(generateToken((CHOOSE u \in found : TRUE)._id, t)), <<>>, <<>>)}
              ELSE {ErrorHandler(PasswordMismatchError, NODE_ENV)}
    [] call = "jwt.sign" ->
         IF normal.status # 200 THEN {} ELSE {ErrorHandler(TokenError, NODE_ENV)}
    [] OTHER -> {}

\* protect comes to User.findById: a token is sent, verifies and names an account
FindByIdReached(header, t) ==
  LET token == HeaderToken(header) IN
  token # EmptyString /\ jwtVerify(token, t) = "" /\ token.userId # Absent

\* A controller's next(error) for a rejected store call, the collections being g and p
FailWith(g, p) == Outcome(ErrorHandler(StoreError, NODE_ENV), g, p, goalCount, progressCount)

Statuses(outcomes) == {o.resp.status : o \in outcomes}

\* A goal or progress controller when call fails: no outcome when the
\* controller does not make that call or does not come to it
controllerWhenFails(op, call, userId, id, body) ==
  CASE op = "createGoal" /\ call = "Goal.create" ->
         IF Statuses(createGoal(userId, body)) = {201} THEN {FailWith(goals, progress)} ELSE {}
    [] op = "getGoals" /\ call = "Goal.find" -> {FailWith(goals, progress)}
    [] op = "getGoalById" /\ call = "Goal.findOne" ->
         IF isValidObjectId(id) THEN {FailWith(goals, progress)} ELSE {}
    [] op = "updateGoal" /\ call = "Goal.findOneAndUpdate" ->
         IF Statuses(updateGoal(userId, id, body)) \subseteq {200, 404}
         THEN {FailWith(goals, progress)} ELSE {}
    [] op = "deleteGoal" /\ call = "Goal.findOneAndDelete" ->
         IF isValidObjectId(id) THEN {FailWith(goals, progress)} ELSE {}
    [] op = "deleteGoal" /\ call = "Progress.deleteMany" ->
         IF isValidObjectId(id) /\ FindGoal(goals, id, userId) # {}
         THEN {FailWith(goals \ FindGoal(goals, id, userId), progress)} ELSE {}
    [] op = "logProgress" /\ call = "Goal.findOne" ->
         IF isValidObjectId(id) THEN {FailWith(goals, progress)} ELSE {}
    [] op = "logProgress" /\ call = "Progress.create" ->
         IF Statuses(logProgress(userId, id, body)) = {201} THEN {FailWith(goals, progress)} ELSE {}
    [] op = "getGoalProgress" /\ call = "Goal.findOne" ->
         IF isValidObjectId(id) THEN {FailWith(goals, progress)} ELSE {}
    [] op = "getGoalProgress" /\ call = "Progress.find" ->
         IF isValidObjectId(id) /\ FindGoal(goals, id, userId) # {}
         THEN {FailWith(goals, progress)} ELSE {}
    [] OTHER -> {}

\* POST /auth/register during which call fails
RegisterUserFailing(body, call) ==
  /\ Serving /\ UNCHANGED <<proc, inflight, client>>
  /\ req = NoRequest
  /\ \E o \in registerUserWhenFails(body, users, now, call) :
       /\ resp' = o.resp
       /\ users' = o.users
  /\ req' = Request("registerUser", <<>>, NoId, body)
  /\ reqUser' = Absent
  /\ failed' = call
  /\ UNCHANGED <<goals, progress, goalCount, progressCount, now, registered>>

\* POST /auth/login during which call fails
LoginUserFailing(body, call) ==
  /\ Serving /\ UNCHANGED <<proc, inflight, client>>
  /\ req = NoRequest
  /\ resp' \in loginUserWhenFails(body, users, now, call)
  /\ req' = Request("loginUser", <<>>, NoId, body)
  /\ reqUser' = Absent
  /\ failed' = call
  /\ UNCHANGED <<stores, now, registered>>

\* A protected route during which the gate's User.findById fails: the catch
\* block of protect answers
GateFailing(request) ==
  /\ Serving /\ UNCHANGED <<proc, inflight, client>>
  /\ req = NoRequest
  /\ FindByIdReached(request.header, now)
  /\ req' = request
  /\ reqUser' = Absent
  /\ resp' = ErrorHandler(protectCatch(StoreError.message[1]), NODE_ENV)
  /\ failed' = "User.findById"
  /\ UNCHANGED <<stores, now, registered>>

\* A protected route during which the controller's call fails
ProtectedFailing(request, call) ==
  LET gate == protect(request.header, users, now) IN
  /\ Serving /\ UNCHANGED <<proc, inflight, client>>
  /\ req = NoRequest
  /\ gate.err = NoError
  /\ \E o \in controllerWhenFails(request.op, call, Val(gate.userId), request.id, request.body) :
       /\ resp' = o.resp
       /\ goals' = o.goals
       /\ progress' = o.progress
       /\ goalCount' = o.goalCount
       /\ progressCount' = o.progressCount
  /\ req' = request
  /\ reqUser' = gate.userId
  /\ failed' = call
  /\ UNCHANGED <<users, now, registered>>

\* The calls the auth controllers, the gate and the goal controllers make
AuthCalls == {"User.findOne", "User.create", "bcryptjs.compare", "jwt.sign"}
GoalCalls ==
  {"Goal.create", "Goal.find", "Goal.findOne", "Goal.findOneAndUpdate",
   "Goal.findOneAndDelete", "Progress.create", "Progress.find", "Progress.deleteMany"}

\* Register and login bodies: two accounts, a wrong password, a short one, no email
FaultAuthBodies ==
  {AuthBody(e, p) : e \in {Absent, Some(EmailA), Some(EmailB)},
                    p \in {Some(Password1), Some(Password2), Some(PasswordShort)}}

\* Requests on the protected routes, sent by either account or with no header
FaultRequests ==
  {Request(op, h, NoId, b) :
     op \in {"createGoal"}, h \in OwnerHeaders \cup {<<>>},
     b \in {TitleOnly, EmptyBody}}
  \cup {Request("getGoals", h, NoId, EmptyBody) : h \in OwnerHeaders \cup {<<>>}}
  \cup {Request(op, h, id, EmptyBody) :
          op \in {"getGoalById", "deleteGoal", "getGoalProgress"},
          h \in OwnerHeaders \cup {<<>>}, id \in PathIds}
  \cup {Request("updateGoal", h, id, StatusOnly) : h \in OwnerHeaders \cup {<<>>}, id \in PathIds}
  \cup {Request("logProgress", h, id, b) :
          h \in OwnerHeaders \cup {<<>>}, id \in PathIds, b \in {ValueOnly, BadDate}}

\* Two accounts registering, logging in, creating and deleting one goal and
\* logging one progress entry, while any call a handler makes may fail.
NextFaults ==
  \/ \E b \in FaultAuthBodies : Cardinality(users) < MaxUsers /\ RegisterUser(b)
  \/ \E b \in FaultAuthBodies : LoginUser(b)
  \/ \E h \in OwnerHeaders : goalCount < GateMaxGoals /\ CreateGoal(h, TitleOnly)
  \/ \E h \in OwnerHeaders, id \in 1..GateMaxGoals :
       progressCount < GateMaxProgress /\ LogProgress(h, id, ValueOnly)
  \/ \E h \in OwnerHeaders, id \in 1..GateMaxGoals : DeleteGoal(h, id)
  \/ \E b \in FaultAuthBodies, call \in AuthCalls :
       Cardinality(users) < MaxUsers /\ RegisterUserFailing(b, call)
  \/ \E b \in FaultAuthBodies, call \in AuthCalls : LoginUserFailing(b, call)
  \/ \E r \in FaultRequests : GateFailing(r)
  \/ \E r \in FaultRequests, call \in GoalCalls : ProtectedFailing(r, call)
  \/ Respond

SpecFaults == Init /\ [][NextFaults]_vars

\* -------------------------------------------------- overlapping requests
\* A handler that runs while others do: n tells the requests apart, pc names
\* the store call it awaits ("done" once it has answered), found is the
\* document its lookup returned, resp its response.
Handler(n, op, userId, id, body, pc, found, res) ==
  [n |-> n, op |-> op, userId |-> userId, id |-> id, body |-> body, pc |-> pc,
   found |-> found, resp |-> res]

FreeHandlers == (1..MaxHandlers) \ {h.n : h \in inflight}

\* The handler h goes on to await call
Awaits(h, call) == (inflight \ {h}) \cup {[h EXCEPT !.pc = call]}

\* The handler h answers res
Answers(h, res) == (inflight \ {h}) \cup {[h EXCEPT !.pc = "done", !.resp = res]}

\* POST /auth/register arrives: registerUser up to its first await
RegisterBegins(n, body) ==
  /\ Serving
  /\ n \in FreeHandlers
  /\ inflight' = inflight \cup
       {IF Falsy(body.email) \/ Falsy(body.password)
        THEN Handler(n, "registerUser", Absent, NoId, body, "done", Absent,
                     ErrorHandler(Error(400, <<"Email and password are required.">>, 55), NODE_ENV))
        ELSE IF ~IsString(Val(body.email))
        THEN Handler(n, "registerUser", Absent, NoId, body, "done", Absent,
                     ErrorHandler(registerUserThrows, NODE_ENV))
        ELSE Handler(n, "registerUser", Absent, NoId, body, "User.findOne", Absent, NoResponse)}
  /\ UNCHANGED <<stores, now, registered, req, reqUser, resp, failed, proc, client>>

\* User.findOne answers: registerUser from line 64 to its next await
RegisterFindOneAnswers(h) ==
  /\ h \in inflight /\ h.op = "registerUser" /\ h.pc = "User.findOne"
  /\ inflight' =
       IF FindUserByEmail(users, toLowerCase(Val(h.body.email))) # {}
       THEN Answers(h, ErrorHandler(Error(409, <<"Email already in use.">>, 66), NODE_ENV))
       ELSE Awaits(h, "User.create")
  /\ UNCHANGED <<stores, now, registered, req, reqUser, resp, failed, proc, client>>

\* User.create answers: validation, the pre-save hook and the insert, then
\* registerUser from line 73 to its end
RegisterCreateAnswers(h) ==
  LET stored == EmailSetters(toLowerCase(Val(h.body.email)))
      password == Val(h.body.password)
      messages == UserValidationMessages(stored, password)
      newUser == [_id |-> Cardinality(users) + 1, email |-> stored,
                  password |-> bcryptHash(password)]
  IN
  /\ h \in inflight /\ h.op = "registerUser" /\ h.pc = "User.create"
  /\ IF messages # <<>>
     THEN /\ inflight' = Answers(h, ErrorHandler(Error(400, <<"Validation Failed: ">> \o messages, 90), NODE_ENV))
          /\ users' = users
     ELSE IF DuplicateKey(users, stored)
     THEN /\ inflight' = Answers(h, ErrorHandler(DuplicateKeyError, NODE_ENV))
          /\ users' = users
     ELSE /\ inflight' = Answers([h EXCEPT !.userId = Some(newUser._id)],
                                 Json(201, Some(generateToken(newUser._id, now)), <<>>, <<>>))
          /\ users' = users \cup {newUser}
  /\ UNCHANGED <<goals, progress, goalCount, progressCount, now, registered, req, reqUser, resp,
                 failed, proc, client>>

\* The response of a handler has been sent
HandlerResponds(h) ==
  /\ h \in inflight /\ h.pc = "done"
  /\ inflight' = inflight \ {h}
  /\ UNCHANGED <<stores, now, registered, req, reqUser, resp, failed, proc, client>>

\* Register bodies: one email in two letter cases, another email, an email
\* that does not validate, a short password, no password
RegisterBodies ==
  {AuthBody(e, p) : e \in {Some(EmailA), Some(EmailAUpper), Some(EmailB), Some(EmailNoAt)},
                    p \in {Absent, Some(Password1), Some(PasswordShort)}}

\* Register requests that overlap in any way
NextRegisters ==
  \/ \E n \in 1..MaxHandlers, b \in RegisterBodies : RegisterBegins(n, b)
  \/ \E h \in inflight : RegisterFindOneAnswers(h)
  \/ \E h \in inflight : Cardinality(users) < MaxUsers /\ RegisterCreateAnswers(h)
  \/ \E h \in inflight : HandlerResponds(h)

SpecRegisters == Init /\ [][NextRegisters]_vars

\* A protected request arrives and passes the gate: the controller op up to
\* its first await, which is call
ControllerBegins(n, op, line, call, header, id, body) ==
  LET gate == protect(header, users, now) IN
  /\ Serving
  /\ n \in FreeHandlers
  /\ gate.err = NoError
  /\ inflight' = inflight \cup
       {IF ~isValidObjectId(id)
        THEN Handler(n, op, gate.userId, id, body, "done", Absent,
                     ErrorHandler(InvalidIdError(line), NODE_ENV))
        ELSE Handler(n, op, gate.userId, id, body, call, Absent, NoResponse)}
  /\ UNCHANGED <<stores, now, registered, req, reqUser, resp, failed, proc, client>>

\* POST /goals/:goalId/progress arrives
LogProgressBegins(n, header, id, body) ==
  ControllerBegins(n, "logProgress", 239, "Goal.findOne", header, id, body)

\* Goal.findOne answers: logProgress from line 245 to its next await
LogProgressFindOneAnswers(h) ==
  /\ h \in inflight /\ h.op = "logProgress" /\ h.pc = "Goal.findOne"
  /\ inflight' =
       IF FindGoal(goals, h.id, Val(h.userId)) = {}
       THEN Answers(h, ErrorHandler(Error(404, <<"Target goal not found.">>, 247), NODE_ENV))
       ELSE Awaits(h, "Progress.create")
  /\ UNCHANGED <<stores, now, registered, req, reqUser, resp, failed, proc, client>>

\* Progress.create answers: validation and the insert, then logProgress
\* from line 262 to its end
LogProgressCreateAnswers(h) ==
  LET messages == ProgressMessages(h.body)
      newProgressLog ==
        [_id |-> progressCount + 1, goalId |-> h.id, userId |-> Val(h.userId),
         date |-> IF h.body.date = Absent THEN now ELSE CastDate(Val(h.body.date)),
         notes |-> IF h.body.notes = Absent THEN Absent ELSE Some(Trim(Val(h.body.notes))),
         value |-> h.body.value,
         createdAt |-> now]
  IN
  /\ h \in inflight /\ h.op = "logProgress" /\ h.pc = "Progress.create"
  /\ IF messages # <<>>
     THEN /\ inflight' = Answers(h, ErrorHandler(handleValidationError(messages, 268), NODE_ENV))
          /\ UNCHANGED <<progress, progressCount>>
     ELSE /\ inflight' = Answers(h, Json(201, Absent, <<>>, <<newProgressLog>>))
          /\ progress' = progress \cup {newProgressLog}
          /\ progressCount' = progressCount + 1
  /\ UNCHANGED <<users, goals, goalCount, now, registered, req, reqUser, resp, failed, proc, client>>

\* DELETE /goals/:id arrives
DeleteGoalBegins(n, header, id) ==
  ControllerBegins(n, "deleteGoal", 197, "Goal.findOneAndDelete", header, id, EmptyBody)

\* Goal.findOneAndDelete answers: deleteGoal from line 203 to its next await
DeleteGoalFindOneAndDeleteAnswers(h) ==
  LET found == FindGoal(goals, h.id, Val(h.userId)) IN
  /\ h \in inflight /\ h.op = "deleteGoal" /\ h.pc = "Goal.findOneAndDelete"
  /\ inflight' =
       IF found = {}
       THEN Answers(h, ErrorHandler(Error(404, <<"Goal not found.">>, 207), NODE_ENV))
       ELSE Awaits(h, "Progress.deleteMany")
  /\ goals' = goals \ found
  /\ UNCHANGED <<users, progress, goalCount, progressCount, now, registered, req, reqUser, resp,
                 failed, proc, client>>

\* Progress.deleteMany answers: deleteGoal from line 214 to its end
DeleteGoalDeleteManyAnswers(h) ==
  /\ h \in inflight /\ h.op = "deleteGoal" /\ h.pc = "Progress.deleteMany"
  /\ progress' = DeleteManyProgress(progress, h.id, Val(h.userId))
  /\ inflight' = Answers(h, Json(204, Absent, <<>>, <<>>))
  /\ UNCHANGED <<users, goals, goalCount, progressCount, now, registered, req, reqUser, resp,
                 failed, proc, client>>

\* An account creates goals, then logs progress on them and deletes them
\* with requests that overlap in any way
NextOverlap ==
  \/ \E b \in {AuthBody(Some(EmailA), Some(Password1))} : users = {} /\ RegisterUser(b)
  \/ \E h \in OwnerHeaders : goalCount < MaxGoals /\ CreateGoal(h, TitleOnly)
  \/ Respond
  \/ \E n \in 1..MaxHandlers, h \in OwnerHeaders, id \in PathIds :
       progressCount < MaxProgress /\ LogProgressBegins(n, h, id, ValueOnly)
  \/ \E h \in inflight : LogProgressFindOneAnswers(h)
  \/ \E h \in inflight : LogProgressCreateAnswers(h)
  \/ \E n \in 1..MaxHandlers, h \in OwnerHeaders, id \in PathIds : DeleteGoalBegins(n, h, id)
  \/ \E h \in inflight : DeleteGoalFindOneAndDeleteAnswers(h)
  \/ \E h \in inflight : DeleteGoalDeleteManyAnswers(h)
  \/ \E h \in inflight : HandlerResponds(h)

SpecOverlap == Init /\ [][NextOverlap]_vars

\* -------------------------------------------------------------- browser
\* An API call of the client in flight: fn is the function of apiClient.js
\* called, header the Authorization header the request interceptor attached,
\* state is "sent", then "answered" (resp holds the response) or "lost" (no
\* response: network error or timeout).
Call(n, fn, body, header, state, res) ==
  [n |-> n, fn |-> fn, body |-> body, header |-> header, state |-> state, resp |-> res]

FreeCalls == (1..MaxCalls) \ {c.n : c \in client.calls}

\* The request interceptor: Authorization is set when localStorage holds a token
RequestInterceptor(authToken) ==
  IF authToken # NoToken THEN <<"Bearer", Val(authToken)>> ELSE <<>>

\* axios resolves the call: it was answered with a 2xx status
Resolves(c) == c.state = "answered" /\ c.resp.status >= 200 /\ c.resp.status < 300

\* err?.response?.data?.message || err?.message: the message of a rejected call
ErrorMessage(c) == IF c.state = "answered" THEN c.resp.message ELSE <<"Network Error">>

\* The steps of the client leave the server's own state as it is
ServerUnchanged ==
  UNCHANGED <<stores, now, registered, req, reqUser, resp, failed, proc, inflight>>

\* The mount effect of AuthProvider: checkAuthState
checkAuthState ==
  /\ ~client.mounted
  /\ client' =
       IF client.authToken # NoToken
       THEN [client EXCEPT !.token = client.authToken, !.isAuthenticated = TRUE,
                           !.isLoading = FALSE, !.mounted = TRUE]
       ELSE [client EXCEPT !.isLoading = FALSE, !.mounted = TRUE]
  /\ ServerUnchanged

\* login and register up to their await: isLoading is set, the error
\* cleared and the request sent
CallBegins(n, fn, credentials) ==
  /\ client.mounted
  /\ n \in FreeCalls
  /\ client' = [client EXCEPT
       !.isLoading = TRUE, !.error = <<>>,
       !.calls = @ \cup {Call(n, fn, credentials, RequestInterceptor(client.authToken),
                              "sent", NoResponse)}]
  /\ ServerUnchanged

login(n, credentials) == CallBegins(n, "loginUser", credentials)

register(n, credentials) == CallBegins(n, "registerUser", credentials)

\* Mutant of Succeeded: the token is kept in the state and not in localStorage
SucceededStateOnly(cl, receivedToken) ==
  [cl EXCEPT !.token = receivedToken, !.isAuthenticated = TRUE, !.error = <<>>]

\* The try block of login and register after a response with a token
Succeeded(cl, receivedToken) ==
  [cl EXCEPT !.authToken = receivedToken, !.token = receivedToken,
             !.isAuthenticated = TRUE, !.error = <<>>]

\* The catch block of login and register
Failed(cl, errorMessage) ==
  [cl EXCEPT !.error = errorMessage, !.authToken = NoToken, !.token = NoToken,
             !.isAuthenticated = FALSE]

\* The finally block of login and register
Finally(cl) == [cl EXCEPT !.isLoading = FALSE]

\* login and register from their await to their end
CallSettles(c) ==
  /\ c \in client.calls /\ c.fn \in {"loginUser", "registerUser"} /\ c.state # "sent"
  /\ LET rest == [client EXCEPT !.calls = @ \ {c}] IN
     client' =
       IF Resolves(c) /\ c.resp.token # Absent
       THEN Finally(Succeeded(rest, c.resp.token))
       ELSE IF Resolves(c)
       THEN Finally(Failed(rest, <<"no token received.">>))
       ELSE Finally(Failed(rest, ErrorMessage(c)))
  /\ ServerUnchanged

\* logout
logout ==
  /\ client.mounted
  /\ client' = [client EXCEPT !.authToken = NoToken, !.token = NoToken,
                              !.isAuthenticated = FALSE, !.error = <<>>,
                              !.isLoading = FALSE]
  /\ ServerUnchanged

\* The mount effect of DashboardPage, which ProtectedElement renders when
\* isAuthenticated and not isLoading: fetchGoals up to its await
fetchGoals(n) ==
  /\ client.mounted /\ client.isAuthenticated /\ ~client.isLoading
  /\ n \in FreeCalls
  /\ \A c \in client.calls : c.fn # "getGoals"
  /\ client' = [client EXCEPT
       !.fetchError = <<>>,
       !.calls = @ \cup {Call(n, "getGoals", EmptyBody, RequestInterceptor(client.authToken),
                              "sent", NoResponse)}]
  /\ ServerUnchanged

\* The response interceptor on a rejected call: it logs and rejects again
ResponseInterceptor(cl, c) == cl

\* fetchGoals from its await to its end: the fetch error of the page is set
\* when the call is rejected
fetchGoalsSettles(c) ==
  /\ c \in client.calls /\ c.fn = "getGoals" /\ c.state # "sent"
  /\ LET rest == [client EXCEPT !.calls = @ \ {c}] IN
     client' =
       IF Resolves(c) THEN rest
       ELSE [ResponseInterceptor(rest, c) EXCEPT
               !.fetchError = IF c.state = "answered" THEN c.resp.message
                              ELSE <<"Failed to load goals.">>]
  /\ ServerUnchanged

\* The server handles the request of a call and answers it
ApiAnswers(c) ==
  /\ Serving
  /\ c \in client.calls /\ c.state = "sent"
  /\ LET gate == protect(c.header, users, now)
         registration == registerUserOutcome(c.body, users, now)
         res == CASE c.fn = "loginUser" -> loginUserResponse(c.body, users, now)
                  [] c.fn = "registerUser" -> registration.resp
                  [] c.fn = "getGoals" ->
                       IF gate.err # NoError THEN ErrorHandler(gate.err, NODE_ENV)
                       ELSE (CHOOSE o \in getGoals(Val(gate.userId)) : TRUE).resp
     IN
     /\ client' = [client EXCEPT
          !.calls = (@ \ {c}) \cup {[c EXCEPT !.state = "answered", !.resp = res]}]
     /\ users' = IF c.fn = "registerUser" THEN registration.users ELSE users
  /\ UNCHANGED <<goals, progress, goalCount, progressCount, now, registered, req, reqUser, resp,
                 failed, proc, inflight>>

\* No response comes: the connection fails or the 15 seconds of the timeout pass
ApiNoResponse(c) ==
  /\ c \in client.calls /\ c.state = "sent"
  /\ client' = [client EXCEPT
       !.calls = (@ \ {c}) \cup {[c EXCEPT !.state = "lost"]}]
  /\ ServerUnchanged

\* A day passes while the page is open
ClientTick ==
  /\ now < MaxTime
  /\ now' = now + 1
  /\ UNCHANGED <<stores, registered, req, reqUser, resp, failed, proc, inflight, client>>

\* The credentials typed: those of the account, and a wrong password
Credentials == {AuthBody(Some(EmailA), Some(Password1)), AuthBody(Some(EmailA), Some(Password2))}

\* The page is loaded again: localStorage is kept, the state of AuthProvider
\* starts anew and the calls in flight are given up
Reload ==
  /\ client.mounted
  /\ client' = Client(client.authToken)
  /\ ServerUnchanged

\* The steps the program takes by itself: effects, responses, continuations
ClientProgram ==
  \/ checkAuthState
  \/ \E c \in client.calls : ApiAnswers(c)
  \/ \E c \in client.calls : CallSettles(c)
  \/ \E c \in client.calls : fetchGoalsSettles(c)

\* The steps that the user, the network or the clock take
ClientEnvironment ==
  \/ \E n \in 1..MaxCalls, b \in Credentials : login(n, b)
  \/ \E n \in 1..MaxCalls, b \in Credentials : register(n, b)
  \/ logout
  \/ \E n \in 1..MaxCalls : fetchGoals(n)
  \/ \E c \in client.calls : ApiNoResponse(c)
  \/ Reload
  \/ ClientTick

NextClient == ClientProgram \/ ClientEnvironment

SpecClient == Init /\ [][NextClient]_vars

\* One session: the user registers or logs in with the right password, the
\* dashboard fetches the goals, days pass, the user may log out or load the
\* page again; one call at a time
SessionEnvironment ==
  \/ \E b \in {AuthBody(Some(EmailA), Some(Password1))} : client.calls = {} /\ login(1, b)
  \/ \E b \in {AuthBody(Some(EmailA), Some(Password1))} : client.calls = {} /\ register(1, b)
  \/ logout
  \/ client.calls = {} /\ fetchGoals(1)
  \/ client.calls = {} /\ Reload
  \/ ClientTick

NextSession == ClientProgram \/ SessionEnvironment

\* The program's own steps (effects, responses, continuations) are taken
\* when they stay possible; the user's, the network's and the clock's need not be
SpecSessionFair == Init /\ [][NextSession]_vars /\ WF_vars(ClientProgram)

\* Bodies that name an owner and an identifier next to the goal's fields
OwnerBodies ==
  {[b EXCEPT !.userId = u, !._id = i] :
     b \in {TitleOnly, StatusOnly, NoFields},
     u \in {Absent} \cup {Some(x) : x \in 1..MaxUsers},
     i \in {Absent, Some(MaxGoals + 1)}}

\* Two accounts create and update goals with such bodies
NextOwners ==
  \/ \E b \in TwoAccounts : Cardinality(users) < MaxUsers /\ RegisterUser(b)
  \/ \E h \in OwnerHeaders, b \in OwnerBodies : goalCount < MaxGoals /\ CreateGoal(h, b)
  \/ \E h \in OwnerHeaders, id \in PathIds, b \in OwnerBodies : UpdateGoal(h, id, b)
  \/ \E h \in OwnerHeaders, id \in PathIds : GetGoalById(h, id)
  \/ Respond

SpecOwners == Init /\ [][NextOwners]_vars

\* -------------------------------------------------------------- startup
\* process.exit(code)
Exit(p, code) == [p EXCEPT !.phase = "exited", !.exitCode = code]

\* Loading auth.controller.js (required by api.routes.js, which server.js
\* requires first): the process exits when JWT_SECRET is unset or empty.
requireAuthController(p) ==
  IF Falsy(p.JWT_SECRET) THEN Exit(p, 1) ELSE [p EXCEPT !.phase = "routesLoaded"]

\* Mutant of connectDB: the address is not looked at before connecting
connectDBWithoutCheck(p) == [p EXCEPT !.phase = "connectCalled", !.db = "connecting"]

\* connectDB() up to its await: the process exits when MONGODB_URI is unset
\* or empty, else mongoose.connect is under way
connectDB(p) ==
  IF Falsy(p.MONGODB_URI) THEN Exit(p, 1)
  ELSE [p EXCEPT !.phase = "connectCalled", !.db = "connecting"]

\* The variables the steps of server.js leave alone
appState ==
  <<users, goals, progress, goalCount, progressCount, now, registered, req, reqUser, resp, failed,
    inflight, client>>

\* server.js line 7: require('./routes/api.routes.js'). The two lines of XML
\* that precede the code of auth.middleware.js are taken as not being there.
LoadRoutes ==
  /\ proc.phase = "start"
  /\ proc' = requireAuthController(proc)
  /\ UNCHANGED appState

\* server.js line 30: connectDB()
ConnectDB ==
  /\ proc.phase = "routesLoaded"
  /\ proc' = connectDB(proc)
  /\ UNCHANGED appState

\* server.js line 67: app.listen(PORT)
Listen ==
  /\ proc.phase = "connectCalled"
  /\ proc' = [proc EXCEPT !.phase = "listening"]
  /\ UNCHANGED appState

\* mongoose.connect resolves, once the script has run to its end
Connected ==
  /\ proc.phase = "listening" /\ proc.db = "connecting"
  /\ proc' = [proc EXCEPT !.db = "connected"]
  /\ UNCHANGED appState

\* mongoose.connect rejects: the catch block of connectDB exits
ConnectFails ==
  /\ proc.phase = "listening" /\ proc.db = "connecting"
  /\ proc' = Exit(proc, 1)
  /\ UNCHANGED appState

\* process.env.JWT_SECRET, process.env.MONGODB_URI: unset, empty, set
EnvSecrets == {Absent, Some(<<>>), Some(<<"s">>)}
EnvUris == {Absent, Some(<<>>), Some(<<"m">>)}

\* node server.js in every environment
InitStartup ==
  /\ users = {} /\ goals = {} /\ progress = {}
  /\ goalCount = 0 /\ progressCount = 0
  /\ now = 0 /\ registered = {}
  /\ req = NoRequest /\ reqUser = Absent /\ resp = NoResponse
  /\ failed = "none"
  /\ inflight = NoHandlers
  /\ client = NoClient
  /\ proc \in {Process("start", "none", 0, secret, uri) : secret \in EnvSecrets, uri \in EnvUris}

\* The process from its start, then serving register, login and create-goal
NextStartup ==
  \/ LoadRoutes
  \/ ConnectDB
  \/ Listen
  \/ Connected
  \/ ConnectFails
  \/ \E b \in AuthBodies : Cardinality(users) < MaxUsers /\ RegisterUser(b)
  \/ \E b \in AuthBodies : LoginUser(b)
  \/ \E h \in OwnerHeaders : goalCount < MaxGoals /\ CreateGoal(h, TitleOnly)
  \/ Respond

SpecStartup == InitStartup /\ [][NextStartup]_vars

\* ----------------------------------------------------------------------
\* Claims about the gate and the auth controllers, checked under Spec
\* ----------------------------------------------------------------------
ProtectedOps ==
  {"createGoal", "getGoals", "getGoalById", "updateGoal", "deleteGoal",
   "logProgress", "getGoalProgress"}

\* The header is exactly 'Bearer <token>'
HasBearerForm(h) == Len(h) = 2 /\ h[1] = "Bearer" /\ h[2] # EmptyString

\* The token is signed with the service's key, unexpired at time t, carries an
\* account id and that account is in coll
TokenIsGood(token, coll, t) ==
  /\ token.signedWith = "JWT_SECRET"
  /\ t < token.exp
  /\ token.userId # Absent
  /\ \E u \in coll : u._id = Val(token.userId)

\* Two strings are equal ignoring letter case
SameIgnoringCase(a, b) ==
  Len(a) = Len(b) /\ \A i \in 1..Len(a) : LowerChar(a[i]) = LowerChar(b[i])

\* C3 (as claimed): on every protected route the controller runs if and only
\* if the Authorization header has the form 'Bearer <token>' with a token that
\* is correctly signed, unexpired, carries an account id of an existing
\* account; it then runs with that account id, and otherwise the answer is 401.
C3_GatePassesIffBearerToken ==
  req.op \in ProtectedOps =>
    /\ reqUser # Absent <=>
         (HasBearerForm(req.header) /\ TokenIsGood(req.header[2], users, now))
    /\ reqUser # Absent => reqUser = req.header[2].userId
    /\ reqUser = Absent => resp.status = 401

\* The part of C3 the code keeps: the controller runs exactly when the second
\* space-separated part of a header starting with 'Bearer ' is a good token,
\* with that token's account id; every other request is answered 401 and
\* changes no collection; and a token taken once is taken until it expires.
GateAdmitsSecondPart ==
  /\ [](req.op \in ProtectedOps =>
         LET h == req.header
             presented == Len(h) >= 2 /\ h[1] = "Bearer" /\ h[2] # EmptyString
         IN /\ reqUser # Absent <=> (presented /\ TokenIsGood(h[2], users, now))
            /\ reqUser # Absent => reqUser = h[2].userId
            /\ reqUser = Absent => resp.status = 401)
  /\ [][req'.op \in ProtectedOps /\ reqUser' = Absent => stores' = stores]_vars
  /\ [][\A t \in Tokens :
          TokenIsGood(t, users, now) /\ now' < t.exp => TokenIsGood(t, users', now')]_vars

\* C4: a presented token that the gate refuses is answered 401 with the one
\* message 'Not authorized, token failed', whether its signature is bad, it
\* has expired, its payload has no account id or its account does not exist.
C4_GateFailuresAlike ==
  (/\ req.op \in ProtectedOps
   /\ Len(req.header) >= 2 /\ req.header[1] = "Bearer" /\ req.header[2] # EmptyString
   /\ LET token == req.header[2] IN
        \/ token.signedWith # "JWT_SECRET"
        \/ now >= token.exp
        \/ token.userId = Absent
        \/ \A u \in users : u._id # Val(token.userId))
  => /\ resp.status = 401
     /\ resp.message = <<"Not authorized, token failed">>
     /\ resp.stack = 77
     /\ resp.token = Absent /\ resp.goals = <<>> /\ resp.progress = <<>>

\* C4 witness: a correctly signed, unexpired token naming an account that does
\* not exist was refused on a protected route.
C4_Witness ==
  /\ req.op \in ProtectedOps
  /\ HasBearerForm(req.header)
  /\ req.header[2].signedWith = "JWT_SECRET"
  /\ now < req.header[2].exp
  /\ req.header[2].userId # Absent
  /\ users # {}
  /\ \A u \in users : u._id # Val(req.header[2].userId)
  /\ resp.status = 401

\* C5: on every protected route a token whose expiry time has been reached is
\* answered 401 and the controller does not run; and a token that has expired
\* stays expired at every later time.
C5_ExpiredTokenRefused ==
  /\ [](req.op \in ProtectedOps /\ Len(req.header) >= 2 /\ req.header[1] = "Bearer"
        /\ req.header[2] # EmptyString /\ req.header[2].exp <= now
        => resp.status = 401 /\ reqUser = Absent)
  /\ [][\A t \in Tokens : t.exp <= now => t.exp <= now']_vars

\* C5 witness: a token of an existing account, correctly signed, was refused
\* on a protected route a day after it expired.
C5_Witness ==
  /\ req.op \in ProtectedOps
  /\ HasBearerForm(req.header)
  /\ TokenIsGood(req.header[2], users, 0)
  /\ req.header[2].exp < now
  /\ resp.status = 401


\* A registration payload with an email of valid syntax and a password of at
\* least 8 characters
ValidRegistration(body) ==
  /\ body.email # Absent /\ body.password # Absent
  /\ MatchesEmailRegex(Val(body.email))
  /\ Len(Val(body.password)) >= 8

\* A registration answered 201 before now has this email, ignoring letter case
EmailRegistered(email) == \E r \in registered : SameIgnoringCase(r.email, email)

\* The gate at time t, with accounts coll, admits 'Bearer <token>' as account id
GateAdmits(token, coll, t, id) ==
  LET gate == protect(<<"Bearer", token>>, coll, t) IN
  gate.err = NoError /\ gate.userId = Some(id)

\* C6: a valid registration whose email is not yet registered is answered 201
\* with a token, and every later login with that email in any letter case and
\* that password is answered 200 with a token; each token passes the gate
\* when it is issued and identifies the account the registration created.
C6_RegisterThenLogin ==
  [][/\ (req'.op = "registerUser" /\ req.op = "none" /\ ValidRegistration(req'.body)
         /\ ~EmailRegistered(Val(req'.body.email)))
        => /\ resp'.status = 201 /\ resp'.token # Absent
           /\ Cardinality(users' \ users) = 1
           /\ \A u \in users' \ users : GateAdmits(Val(resp'.token), users', now', u._id)
     /\ \A r \in registered :
          (req'.op = "loginUser" /\ req.op = "none"
           /\ req'.body.email # Absent /\ SameIgnoringCase(Val(req'.body.email), r.email)
           /\ req'.body.password = Some(r.password))
          => /\ resp'.status = 200 /\ resp'.token # Absent
             /\ GateAdmits(Val(resp'.token), users', now', r.userId)]_vars

\* C6 witness: an account registered as a@x.c has logged in as A@X.c a day
\* later and was answered 200 with a token.
C6_Witness ==
  /\ req.op = "loginUser"
  /\ req.body.email = Some(EmailAUpper)
  /\ \E r \in registered : r.email = EmailA /\ req.body.password = Some(r.password)
  /\ now > 0
  /\ resp.status = 200 /\ resp.token # Absent

\* C7 (as claimed): once a registration has succeeded for an email, every
\* later register request whose email equals it ignoring letter case is
\* answered 409, creates no account and issues no token.
C7_DuplicateEmailConflict ==
  [][(req'.op = "registerUser" /\ req.op = "none"
      /\ req'.body.email # Absent /\ EmailRegistered(Val(req'.body.email)))
     => resp'.status = 409 /\ users' = users /\ resp'.token = Absent]_vars

\* C7 (amended): the same, for register requests that carry a non-empty
\* password; a request without one is answered 400, and in both cases no
\* account is created or changed and no token is issued.
C7_DuplicateEmailConflictWithPassword ==
  [][(req'.op = "registerUser" /\ req.op = "none"
      /\ req'.body.email # Absent /\ EmailRegistered(Val(req'.body.email)))
     => /\ resp'.status =
             (IF req'.body.password = Absent \/ req'.body.password = Some(<<>>)
              THEN 400 ELSE 409)
        /\ users' = users /\ registered' = registered /\ resp'.token = Absent]_vars

\* C7 witness: after a@x.c was registered, a register request for A@X.c with
\* a password was answered 409.
C7_Witness ==
  /\ req.op = "registerUser"
  /\ req.body.email = Some(EmailAUpper)
  /\ req.body.password # Absent
  /\ \E r \in registered : r.email = EmailA
  /\ resp.status = 409

\* C8: a login with a registered email and a wrong password and a login with
\* an email that matches no account get the same status and message, 401
\* 'Invalid credentials.', and no token.
C8_LoginFailuresAlike ==
  (/\ req.op = "loginUser"
   /\ req.body.email # Absent /\ req.body.password # Absent
   /\ \/ ~EmailRegistered(Val(req.body.email))
      \/ \E r \in registered :
           SameIgnoringCase(r.email, Val(req.body.email)) /\ r.password # Val(req.body.password))
  => /\ resp.status = 401
     /\ resp.message = <<"Invalid credentials.">>
     /\ resp.token = Absent

\* C8 witness: a login with a registered email and another password of valid
\* length was refused.
C8_Witness ==
  /\ req.op = "loginUser"
  /\ req.body.email # Absent
  /\ req.body.password = Some(Password2)
  /\ \E r \in registered :
       SameIgnoringCase(r.email, Val(req.body.email)) /\ r.password = Password1
  /\ resp.status = 401


\* ----------------------------------------------------------------------
\* Claims about goal ownership and the delete cascade, checked under SpecGoals
\* ----------------------------------------------------------------------
IdOps == {"getGoalById", "updateGoal", "deleteGoal", "logProgress", "getGoalProgress"}

\* An update body that updateGoal and the goal schema accept
UpdateBodyValid(b) ==
  /\ \E f \in {b.title, b.description, b.status, b.targetDate} : f # Absent
  /\ b.title # Absent =>
       Trim(Val(b.title)) # <<>> /\ Len(Trim(Val(b.title))) <= TitleMaxLength
  /\ b.description # Absent => Len(Trim(Val(b.description))) <= DescriptionMaxLength
  /\ b.status # Absent => Val(b.status) \in {"active", "completed"}
  /\ b.targetDate # Absent => IsDateString(Val(b.targetDate))

\* The request just handled was let through the gate as an account other than
\* the owner of the goal its path names
OnAnothersGoal ==
  /\ req.op = "none" /\ req'.op \in IdOps /\ reqUser' # Absent
  /\ \E g \in goals : g._id = req'.id /\ Some(g.userId) # reqUser'

KeptAndNotReadOut ==
  /\ goals' = goals /\ progress' = progress
  /\ resp'.goals = <<>> /\ resp'.progress = <<>>

\* C1 (as claimed): every read-goal, update-goal, delete-goal, list-progress
\* and log-progress request of an account on a goal of another account is
\* answered 404 and leaves the goal and its progress entries as they were.
C1_OthersGoalNotFound ==
  [][OnAnothersGoal => resp'.status = 404 /\ KeptAndNotReadOut]_vars

\* C1 (amended): the same, except that an update-goal request whose body is
\* refused on its own (no field, a blank title, a value the schema refuses) is
\* answered with that refusal, 400, or 500 for a date that does not cast; the
\* goal and its progress entries are left as they were in every case.
C1_OthersGoalNotFoundOrBodyRefused ==
  [][OnAnothersGoal =>
       /\ IF req'.op = "updateGoal" /\ ~UpdateBodyValid(req'.body)
          THEN resp'.status \in {400, 500}
          ELSE resp'.status = 404
       /\ KeptAndNotReadOut]_vars

\* C1 witness: an account asked to delete a goal of another account that has
\* a progress entry, and was answered 404.
C1_Witness ==
  /\ req.op = "deleteGoal" /\ reqUser # Absent
  /\ \E g \in goals : g._id = req.id /\ Some(g.userId) # reqUser
  /\ \E p \in progress : p.goalId = req.id
  /\ resp.status = 404

\* The responses a controller can give account u for path id and body b
Responses(op, u, id, b) ==
  LET outcomes ==
        CASE op = "getGoalById" -> getGoalById(u, id)
          [] op = "updateGoal" -> updateGoal(u, id, b)
          [] op = "deleteGoal" -> deleteGoal(u, id)
          [] op = "logProgress" -> logProgress(u, id, b)
          [] op = "getGoalProgress" -> getGoalProgress(u, id)
  IN {o.resp : o \in outcomes}

RequestBodies(op) ==
  CASE op = "updateGoal" -> OwnershipUpdates
    [] op = "logProgress" -> {ValueOnly, BadDate}
    [] OTHER -> {EmptyBody}

\* C2: for every operation on a goal id and every body, the response an
\* account gets for the id of another account's goal is the response it gets
\* for a well-formed id that matches no goal.
C2_NoExistenceLeak ==
  \A u \in users : \A g \in goals : \A free \in 1..(MaxGoals + 1) :
    (g.userId # u._id /\ \A x \in goals : x._id # free) =>
      \A op \in IdOps : \A b \in RequestBodies(op) :
        Responses(op, u._id, g._id, b) = Responses(op, u._id, free, b)

\* C2 witness: an account asked to log progress on another account's goal and
\* was answered 404, while some well-formed id matches no goal.
C2_Witness ==
  /\ req.op = "logProgress" /\ reqUser # Absent
  /\ \E g \in goals : g._id = req.id /\ Some(g.userId) # reqUser
  /\ \E free \in 1..(MaxGoals + 1) : \A x \in goals : x._id # free
  /\ resp.status = 404 /\ resp.message = <<"Target goal not found.">>

\* C9: when delete-goal is answered 204 the goal is gone, no progress entry
\* of that goal remains and the entries of every other goal are untouched;
\* and every list-progress let through the gate for the id of a goal that was
\* deleted is answered 404.
C9_DeleteCascades ==
  /\ [][(req.op = "none" /\ req'.op = "deleteGoal" /\ resp'.status = 204) =>
          /\ \E g \in goals : g._id = req'.id
          /\ \A g \in goals' : g._id # req'.id
          /\ \A g \in goals : g._id # req'.id => g \in goals'
          /\ \A p \in progress' : p.goalId # req'.id
          /\ {p \in progress : p.goalId # req'.id} = progress']_vars
  /\ []((req.op = "getGoalProgress" /\ reqUser # Absent
         /\ req.id \in 1..goalCount /\ \A g \in goals : g._id # req.id)
        => resp.status = 404)

\* C9 witness: a goal with a progress entry was deleted with 204 while another
\* goal has a progress entry too.
C9_Witness ==
  /\ req.op = "deleteGoal" /\ resp.status = 204
  /\ progressCount = 2 /\ Cardinality(progress) = 1
  /\ \E p \in progress : p.goalId # req.id /\ \E g \in goals : g._id = p.goalId

\* ----------------------------------------------------------------------
\* Claims about update-goal, checked under SpecUpdate
\* ----------------------------------------------------------------------
\* The goal g after an accepted update with body b: h. Fields not supplied
\* are kept; trimmed says whether a supplied text loses its surrounding
\* whitespace.
AsSupplied(text, trimmed) == IF trimmed THEN Trim(text) ELSE text

UpdatedAs(g, h, b, trimmed) ==
  /\ h._id = g._id /\ h.userId = g.userId /\ h.createdAt = g.createdAt
  /\ h.title = IF b.title = Absent THEN g.title ELSE AsSupplied(Val(b.title), trimmed)
  /\ h.description =
       IF b.description = Absent THEN g.description ELSE Some(AsSupplied(Val(b.description), trimmed))
  /\ h.status = IF b.status = Absent THEN g.status ELSE Val(b.status)
  /\ IF b.targetDate = Absent THEN h.targetDate = g.targetDate
     ELSE /\ IsDateString(Val(b.targetDate))
          /\ h.targetDate = Some(CastDate(Val(b.targetDate)))

UpdateAnswered(status) == req.op = "none" /\ req'.op = "updateGoal" /\ resp'.status = status

\* C10 (as claimed): an update-goal answered 200 gives exactly the supplied
\* fields the supplied values, keeps every other field and changes no other
\* goal.
C10_PartialUpdate ==
  [][UpdateAnswered(200) =>
       \E g \in goals : \E h \in goals' :
         /\ g._id = req'.id
         /\ UpdatedAs(g, h, req'.body, FALSE)
         /\ goals' \ {h} = goals \ {g}]_vars

\* C10 (amended): an update-goal answered 200 gives exactly the supplied
\* fields the supplied values as the schema stores them (title and
\* description without surrounding whitespace), keeps every other field and
\* changes no other goal; an update-goal answered otherwise changes no goal.
C10_PartialUpdateAsStored ==
  /\ [][UpdateAnswered(200) =>
          \E g \in goals : \E h \in goals' :
            /\ g._id = req'.id
            /\ UpdatedAs(g, h, req'.body, TRUE)
            /\ goals' \ {h} = goals \ {g}
            /\ resp'.goals = <<h>>]_vars
  /\ [][(req.op = "none" /\ req'.op = "updateGoal" /\ resp'.status # 200)
        => goals' = goals]_vars

\* C10 witness: an update with only status 'completed' was answered 200 on a
\* goal that has a description and a target date, while another goal exists.
C10_Witness ==
  /\ req.op = "updateGoal" /\ req.body = StatusOnly /\ resp.status = 200
  /\ Cardinality(goals) = 2
  /\ \E g \in goals :
       g._id = req.id /\ g.description # Absent /\ g.targetDate # Absent

\* ----------------------------------------------------------------------
\* Claims about create-goal, checked under SpecCreate
\* ----------------------------------------------------------------------
\* The title is 1 to 150 characters after trimming
TitleAccepted(title) ==
  /\ title # Absent
  /\ Trim(Val(title)) # <<>>
  /\ Len(Trim(Val(title))) <= TitleMaxLength

\* The fields of a create-goal body other than the title are ones the schema takes
OtherFieldsAccepted(b) ==
  /\ b.description # Absent => Len(Trim(Val(b.description))) <= DescriptionMaxLength
  /\ b.status # Absent => Val(b.status) \in {"active", "completed"}
  /\ b.targetDate # Absent => IsDateString(Val(b.targetDate))

CreateHandled == req.op = "none" /\ req'.op = "createGoal" /\ reqUser' # Absent

\* C11: a create-goal whose title is missing, empty, blank or longer than 150
\* characters is answered 400 and stores no goal; one whose title has 1 to 150
\* characters after trimming (its other fields being ones the schema takes) is
\* answered 201 and stores one goal with that title, trimmed.
C11_CreateGoalTitle ==
  [][CreateHandled =>
       IF ~TitleAccepted(req'.body.title)
       THEN resp'.status = 400 /\ goals' = goals /\ resp'.goals = <<>>
       ELSE OtherFieldsAccepted(req'.body) =>
              /\ resp'.status = 201
              /\ \E g \in goals' \ goals :
                   /\ goals' = goals \cup {g}
                   /\ g.title = Trim(Val(req'.body.title))
                   /\ resp'.goals = <<g>>]_vars

\* C11 witness: a title of 150 characters within spaces was accepted after a
\* goal had been stored.
C11_Witness ==
  /\ req.op = "createGoal" /\ resp.status = 201
  /\ Len(Val(req.body.title)) = TitleMaxLength + 2
  /\ Cardinality(goals) = 2

\* ----------------------------------------------------------------------
\* The end-to-end scenario, checked under SpecScenario
\* ----------------------------------------------------------------------
\* The request being answered is op, sent with 'Bearer <token>' where the
\* token is one of an existing account and has not expired
SentWithGoodToken(op) ==
  /\ req.op = "none" /\ req'.op = op
  /\ HasBearerForm(req'.header)
  /\ TokenIsGood(req'.header[2], users, now)

\* The account of the token the request is sent with
Sender == Val(req'.header[2].userId)

\* The request names a goal of the account that sends it
OnOwnGoal == \E g \in goals : g._id = req'.id /\ g.userId = Sender

\* C12: each step of the scenario is answered as told whenever it is taken:
\* a first registration with a password of 8 characters gives 201 and a token;
\* create-goal with only a title, sent with a token in force, gives 201 and
\* stores a goal of status 'active'; log-progress with only value 3 on that
\* goal gives 201 and an entry dated now; list-progress on a goal with that
\* one entry returns exactly it; delete-goal gives 204; list-progress for the
\* id of the deleted goal gives 404.
C12_Scenario ==
  /\ [][(req.op = "none" /\ req'.op = "registerUser" /\ users = {}
         /\ req'.body = AuthBody(Some(EmailA), Some(Password1)))
        => resp'.status = 201 /\ resp'.token # Absent]_vars
  /\ [][(SentWithGoodToken("createGoal") /\ req'.body = TitleOnly)
        => /\ resp'.status = 201
           /\ \E g \in goals' \ goals :
                goals' = goals \cup {g} /\ g.status = "active" /\ g.userId = Sender]_vars
  /\ [][(SentWithGoodToken("logProgress") /\ OnOwnGoal /\ req'.body = ValueOnly)
        => /\ resp'.status = 201
           /\ \E e \in progress' \ progress :
                /\ progress' = progress \cup {e}
                /\ e.goalId = req'.id /\ e.value = Some(3) /\ e.date = now
                /\ resp'.progress = <<e>>]_vars
  /\ [][(SentWithGoodToken("getGoalProgress") /\ OnOwnGoal
         /\ Cardinality({e \in progress : e.goalId = req'.id}) = 1)
        => /\ resp'.status = 200
           /\ Len(resp'.progress) = 1
           /\ resp'.progress[1].goalId = req'.id
           /\ resp'.progress[1].value = Some(3)]_vars
  /\ [][(SentWithGoodToken("deleteGoal") /\ OnOwnGoal) => resp'.status = 204]_vars
  /\ [][(SentWithGoodToken("getGoalProgress") /\ req'.id \in 1..goalCount
         /\ \A g \in goals : g._id # req'.id)
        => resp'.status = 404]_vars

\* C12 witness: the scenario has run to its end on a later day: the one goal
\* created and its one entry are gone and list-progress was answered 404.
C12_Witness ==
  /\ req.op = "getGoalProgress" /\ req.id = 1 /\ resp.status = 404
  /\ Cardinality(users) = 1 /\ goalCount = 1 /\ goals = {}
  /\ progressCount = 1 /\ progress = {}
  /\ now > 0

\* ----------------------------------------------------------------------
\* Claims about the lists and about log-progress, checked under SpecLists
\* ----------------------------------------------------------------------
\* The request being answered is op, let through the gate
Handled(op) == req.op = "none" /\ req'.op = op /\ reqUser' # Absent

\* The documents a response lists, as a set
Listed(list) == {list[i] : i \in 1..Len(list)}

\* C13: list-goals is answered 200 with every goal of the authenticated
\* account and no other goal, each once, newest created first, and changes
\* no goal.
C13_ListGoalsOwnedNewestFirst ==
  [][Handled("getGoals") =>
       LET owned == {g \in goals : g.userId = Val(reqUser')}
           list == resp'.goals
       IN /\ resp'.status = 200
          /\ Listed(list) = owned
          /\ Len(list) = Cardinality(owned)
          /\ \A i, j \in 1..Len(list) : i < j => list[i].createdAt >= list[j].createdAt
          /\ goals' = goals]_vars

\* C13 witness: list-goals returned two goals created on different days, one
\* of them updated since.
C13_Witness ==
  /\ req.op = "getGoals" /\ resp.status = 200 /\ Len(resp.goals) = 2
  /\ resp.goals[1].createdAt > resp.goals[2].createdAt
  /\ resp.goals[2].status = "completed"

\* C14: list-progress on a goal of the authenticated account is answered 200
\* with exactly the entries logged against that goal, each once, latest date
\* first and, among entries of one date, latest created first.
C14_ListProgressLatestFirst ==
  [][(Handled("getGoalProgress")
      /\ \E g \in goals : g._id = req'.id /\ g.userId = Val(reqUser')) =>
       LET logged == {p \in progress : p.goalId = req'.id}
           list == resp'.progress
       IN /\ resp'.status = 200
          /\ Listed(list) = logged
          /\ Len(list) = Cardinality(logged)
          /\ \A i, j \in 1..Len(list) : i < j =>
               \/ list[i].date > list[j].date
               \/ list[i].date = list[j].date /\ list[i].createdAt >= list[j].createdAt]_vars

\* C14 witness: list-progress returned two entries of one date logged on
\* different days.
C14_Witness ==
  /\ req.op = "getGoalProgress" /\ resp.status = 200 /\ Len(resp.progress) = 2
  /\ resp.progress[1].date = resp.progress[2].date
  /\ resp.progress[1].createdAt > resp.progress[2].createdAt

\* The body of a log-progress is one the progress schema takes
ProgressBodyAccepted(b) ==
  /\ b.date # Absent => IsDateString(Val(b.date))
  /\ b.notes # Absent => Len(Trim(Val(b.notes))) <= NotesMaxLength

\* Exactly one entry is created, of the authenticated account, on the goal of
\* the path, dated as supplied, or now when no date is supplied
OneEntryCreated ==
  \E e \in progress' \ progress :
    /\ progress' = progress \cup {e}
    /\ e.userId = Val(reqUser') /\ e.goalId = req'.id
    /\ IF req'.body.date = Absent THEN e.date = now
       ELSE IsDateString(Val(req'.body.date)) /\ e.date = CastDate(Val(req'.body.date))

GoalNotOwned == \A g \in goals : ~(g._id = req'.id /\ g.userId = Val(reqUser'))

TargetGoalNotFound ==
  /\ resp'.status = 404 /\ resp'.message = <<"Target goal not found.">>
  /\ progress' = progress

C17_ProgressOwnerIsGoalOwner ==
  \A p \in progress : \E g \in goals : g._id = p.goalId /\ g.userId = p.userId

\* C17 witness: two accounts each have an entry on a goal of their own.
C17_Witness ==
  /\ Cardinality(progress) = 2
  /\ \E p, q \in progress : p.userId # q.userId

\* ----------------------------------------------------------------------
\* Claims about malformed ids, checked under SpecGoals
\* ----------------------------------------------------------------------
\* C16: on every route with a goal id in its path, a request let through the
\* gate with a malformed id is answered 400 'Invalid Goal ID format.' whatever
\* the stores hold and whatever its body, nothing is read out and no store is
\* changed; with a well-formed id that matches no goal of the account the
\* answer is 404 (for update-goal, when the body is one it takes).
C16_MalformedIdRefusedFirst ==
  [][(req.op = "none" /\ req'.op \in IdOps /\ reqUser' # Absent) =>
       /\ req'.id = MalformedId =>
            /\ resp'.status = 400
            /\ resp'.message = <<"Invalid Goal ID format.">>
            /\ resp'.goals = <<>> /\ resp'.progress = <<>>
            /\ UNCHANGED stores
       /\ (/\ req'.id # MalformedId
           /\ \A g \in goals : ~(g._id = req'.id /\ g.userId = Val(reqUser'))
           /\ req'.op = "updateGoal" => UpdateBodyValid(req'.body))
          => resp'.status = 404 /\ UNCHANGED stores]_vars

\* C16 witness: an update-goal with a malformed id and a body that would be
\* refused was answered 'Invalid Goal ID format.' while the account has a goal
\* with a progress entry.
C16_Witness ==
  /\ req.op = "updateGoal" /\ req.id = MalformedId /\ req.body = BadStatus
  /\ resp.status = 400 /\ resp.message = <<"Invalid Goal ID format.">>
  /\ \E g \in goals : Some(g.userId) = reqUser /\ \E p \in progress : p.goalId = g._id

\* ----------------------------------------------------------------------
\* Claims about the terminal error handler
\* ----------------------------------------------------------------------
\* C19 (as claimed): a response of status 500 carries the generic message
\* only, never the message of the error that caused it.
C19_UnexpectedErrorGenericMessage ==
  resp.status = 500 => resp.message = <<"Internal Server Error">>

\* ----------------------------------------------------------------------
\* Claims about startup, checked under SpecStartup
\* ----------------------------------------------------------------------
\* C18: a process started without JWT_SECRET is, at every moment, either
\* before the loading of the routes or has exited with code 1; one started
\* without MONGODB_URI is either before connectDB or has exited with code 1;
\* neither ever listens, handles a request or writes a store.
C18_NoStartWithoutConfiguration ==
  /\ Falsy(proc.JWT_SECRET) => proc.phase \in {"start", "exited"}
  /\ Falsy(proc.MONGODB_URI) => proc.phase \in {"start", "routesLoaded", "exited"}
  /\ (Falsy(proc.JWT_SECRET) \/ Falsy(proc.MONGODB_URI)) =>
       /\ proc.phase = "exited" => proc.exitCode = 1
       /\ proc.phase # "listening"
       /\ req = NoRequest /\ resp = NoResponse
       /\ users = {} /\ goals = {} /\ progress = {}

\* C18 witness: with JWT_SECRET set and MONGODB_URI set to the empty string
\* the process has exited with code 1.
C18_Witness ==
  /\ ~Falsy(proc.JWT_SECRET) /\ proc.MONGODB_URI = Some(<<>>)
  /\ proc.phase = "exited" /\ proc.exitCode = 1


\* Claims about failing calls, checked under SpecFaults
\* The response is one the terminal handler of server.js writes: a message
\* and no payload
FromErrorHandler(r) ==
  r.message # <<>> /\ r.token = Absent /\ r.goals = <<>> /\ r.progress = <<>>

\* C20: a request during which a store or runtime call fails (a users, goals
\* or progress query or write, the password comparison, the token signing) is
\* answered 400 or above by the terminal error handler, never 2xx.
C20_NoInternalErrorSucceeds ==
  failed # "none" => resp.status >= 400 /\ FromErrorHandler(resp)

\* A login with the right password during which the password comparison
\* fails has been answered 401 by the terminal handler
C20_Witness ==
  /\ failed = "bcryptjs.compare"
  /\ req.op = "loginUser"
  /\ loginUserResponse(req.body, users, now).status = 200
  /\ resp.status = 401


\* Claims about overlapping register requests, checked under SpecRegisters
UpperCaseLetters == {"A", "B", "X"}

\* The string s with each upper-case letter replaced by its lower-case one
IgnoringCase(s) ==
  [i \in 1..Len(s) |->
     CASE s[i] = "A" -> "a" [] s[i] = "B" -> "b" [] s[i] = "X" -> "x" [] OTHER -> s[i]]

\* C21: in every reachable state, however register requests overlap, no two
\* accounts have emails that are equal ignoring letter case, and every
\* stored email is in lower case.
C21_EmailsUniqueAndLowerCase ==
  /\ \A u, v \in users : IgnoringCase(u.email) = IgnoringCase(v.email) => u = v
  /\ \A u \in users : \A i \in 1..Len(u.email) : u.email[i] \notin UpperCaseLetters

\* Two register requests for one email in two letter cases both passed the
\* lookup before either account was stored, and both have answered
C21_Witness ==
  \E h, k \in inflight :
    /\ h.n # k.n
    /\ h.pc = "done" /\ k.pc = "done"
    /\ h.body.email = Some(EmailA) /\ k.body.email = Some(EmailAUpper)
    /\ h.resp.status = 201 /\ k.resp.status = 500
    /\ Cardinality(users) = 1


\* The handler h was refused because its email is taken: its body passes the
\* checks of the controller and of the schema, it created no account, and an
\* account with its email is stored
RefusedAsTaken(h) ==
  /\ h.op = "registerUser" /\ h.pc = "done"
  /\ ~Falsy(h.body.email) /\ ~Falsy(h.body.password)
  /\ UserValidationMessages(Trim(IgnoringCase(Val(h.body.email))), Val(h.body.password)) = <<>>
  /\ h.resp.status # 201
  /\ \E u \in users : u.email = Trim(IgnoringCase(Val(h.body.email)))

\* C22: a register request refused because its email is taken is answered
\* 409, also when it overlaps with another register request for that email.
C22_TakenEmailAlwaysConflict ==
  \A h \in inflight : RefusedAsTaken(h) => h.resp.status = 409


\* Claims about register and login bodies, checked under SpecAuthInputs
\* A body field is missing: not sent, or the empty string
Missing(o) == o = Absent \/ o = Some(<<>>)

\* The email of the body is an address: a string that, trimmed, is made of
\* a name, "@", a domain, "." and a suffix, with no blank in it
IsAddress(o) ==
  /\ ~Missing(o) /\ Val(o) # JsonNumber
  /\ LET e == Trim(Val(o)) IN
     /\ \A i \in 1..Len(e) : e[i] # " "
     /\ \E i \in 2..Len(e) : \E j \in (i + 2)..(Len(e) - 1) : e[i] = "@" /\ e[j] = "."

\* No account is stored under the email of the body
NotRegistered(o) ==
  Val(o) = JsonNumber \/ \A u \in users : u.email # Trim(IgnoringCase(Val(o)))

\* This step handles a request op
AuthHandled(op) == req = NoRequest /\ req'.op = op

\* The request was refused as a bad request: 400, no account, no token
Refused400 == resp'.status = 400 /\ users' = users /\ resp'.token = Absent

\* C23: a register request whose email or password is missing, or, the email
\* not being registered, whose password is shorter than 8 characters or whose
\* email is not an address, is answered 400, creates no account and issues
\* no token; a login request whose email or password is missing is answered
\* 400 and issues no token.
C23_BadAuthBodyRefused ==
  [][/\ AuthHandled("registerUser")
        /\ \/ Missing(req'.body.email) \/ Missing(req'.body.password)
           \/ /\ NotRegistered(req'.body.email)
              /\ \/ Len(Val(req'.body.password)) < PasswordMinLength
                 \/ ~IsAddress(req'.body.email)
        => Refused400
     /\ AuthHandled("loginUser")
        /\ (Missing(req'.body.email) \/ Missing(req'.body.password))
        => Refused400]_vars

\* The same, for bodies whose email is a string
C23_BadStringBodyRefused ==
  [][/\ AuthHandled("registerUser")
        /\ \/ Missing(req'.body.email) \/ Missing(req'.body.password)
           \/ /\ Val(req'.body.email) # JsonNumber
              /\ NotRegistered(req'.body.email)
              /\ \/ Len(Val(req'.body.password)) < PasswordMinLength
                 \/ ~IsAddress(req'.body.email)
        => Refused400
     /\ AuthHandled("loginUser")
        /\ (Missing(req'.body.email) \/ Missing(req'.body.password))
        => Refused400]_vars


\* Claims about the fields of stored goals, checked under SpecFields
\* The text with the blanks at its ends removed
Stripped(text) ==
  LET first == {i \in 1..Len(text) : text[i] # " "} IN
  IF first = {} THEN <<>>
  ELSE SubSeq(text, CHOOSE i \in first : \A j \in first : i <= j,
                    CHOOSE i \in first : \A j \in first : i >= j)

\* Every stored goal has a trimmed title of 1 to 150 characters, a
\* description of at most 500 characters if it has one, and a status that is
\* 'active' or 'completed'
StoredGoalsValid(coll) ==
  \A g \in coll :
    /\ g.title = Stripped(g.title)
    /\ Len(g.title) >= 1 /\ Len(g.title) <= 150
    /\ g.description # <<>> => Len(g.description[1]) <= 500
    /\ g.status \in {"active", "completed"}

\* The body b of a create (title required) or of an update would store a
\* title, a description or a status that is not allowed
WouldViolate(op, b) ==
  \/ op = "createGoal" /\ b.title = <<>>
  \/ b.title # <<>> /\ (Stripped(b.title[1]) = <<>> \/ Len(Stripped(b.title[1])) > 150)
  \/ b.description # <<>> /\ Len(Stripped(b.description[1])) > 500
  \/ b.status # <<>> /\ b.status[1] \notin {"active", "completed"}

\* This step is the controller of a create or update request whose body
\* would violate the rules on the fields
ViolatingRequestHandled ==
  /\ req = NoRequest /\ req'.op \in {"createGoal", "updateGoal"}
  /\ reqUser' # <<>>
  /\ WouldViolate(req'.op, req'.body)

\* C24: after any sequence of create-goal and update-goal requests every
\* stored goal has a trimmed title of 1 to 150 characters, a description of
\* at most 500 characters if present and a status 'active' or 'completed';
\* a request that would violate this is answered 400 and changes nothing.
C24_GoalFieldsValidOrRefused400 ==
  [][/\ StoredGoalsValid(goals')
     /\ ViolatingRequestHandled => resp'.status = 400 /\ UNCHANGED stores]_vars

\* The same with any error status: the request is refused and changes nothing
C24_GoalFieldsValidOrRefused ==
  [][/\ StoredGoalsValid(goals')
     /\ ViolatingRequestHandled => resp'.status \in {400, 500} /\ UNCHANGED stores]_vars


\* Claims about the client, checked under SpecClient and SpecClientFair
\* The token in localStorage has expired
StoredTokenExpired ==
  client.authToken # <<>> /\ client.authToken[1].exp < now

\* A protected request sent with the expired token has been answered 401
\* while the client is in the authenticated state
ExpiredTokenRefused ==
  /\ client.mounted /\ client.isAuthenticated /\ StoredTokenExpired
  /\ \E c \in client.calls :
       c.fn = "getGoals" /\ c.state = "answered" /\ c.resp.status = 401

\* C25: from an authenticated client whose stored token has expired, once a
\* protected request has been answered 401 the client eventually clears the
\* stored token and leaves the authenticated state.
C25_ExpiredTokenLogsOut ==
  ExpiredTokenRefused ~> (client.authToken = <<>> /\ ~client.isAuthenticated)


\* A login or register call has not come to its end
AuthCallInFlight == \E c \in client.calls : c.fn \in {"loginUser", "registerUser"}

\* C26: isLoading is true in every state in which the initial stored-token
\* check has not finished or a login or register call is still in flight,
\* however login, register and logout calls and their completions interleave.
C26_LoadingWhileInFlight ==
  (~client.mounted \/ AuthCallInFlight) => client.isLoading

\* This step ends a login or register call that failed: no response, an
\* error status, or a response without a token
FailedCallEnds ==
  client'.mounted /\ \E c \in client.calls :
    /\ c.fn \in {"loginUser", "registerUser"}
    /\ c.state # "sent"
    /\ \A d \in client'.calls : d.n # c.n
    /\ \/ c.state = "lost"
       \/ c.resp.status < 200 \/ c.resp.status >= 300
       \/ c.resp.token = <<>>

\* C30: once the initial check has finished, in every state reached by any
\* interleaving of login, register and logout calls, isAuthenticated is true
\* exactly when the in-memory token is not null, and the in-memory token
\* equals the authToken of localStorage; a failed login or register ends with
\* no token stored.
C30_TokenStateAndStorageAgree ==
  [][/\ client'.mounted =>
          /\ client'.isAuthenticated <=> client'.token # <<>>
          /\ client'.token = client'.authToken
     /\ FailedCallEnds => client'.authToken = <<>> /\ client'.token = <<>>]_vars

\* A session was open, a login with a wrong password overlapped with a
\* register, and after both ended the failed login has left no token
C30_Witness ==
  /\ client.mounted
  /\ client.calls = {}
  /\ client.error = <<"Invalid credentials.">>
  /\ client.authToken = <<>>
  /\ ~client.isAuthenticated
  /\ users # {}


\* Claims about overlapping log-progress and delete-goal, checked under SpecOverlap
\* No request is being handled
AllCompleted == req = NoRequest /\ \A h \in inflight : h.pc = "done"

\* C27: however log-progress and delete-goal requests of the owner on one
\* goal overlap, once all requests have completed every progress entry
\* references a goal that still exists.
C27_NoEntryOfADeletedGoal ==
  AllCompleted => \A p \in progress : \E g \in goals : g._id = p.goalId

\* Claims about failing calls and the stores, checked under SpecFaults
\* C28: a request that ends with an error response (4xx or 5xx) leaves the
\* users, goals and progress collections as they were before it, also when a
\* call fails partway through the handler.
C28_ErrorResponseChangesNothing ==
  [][req = NoRequest /\ req' # NoRequest /\ resp'.status >= 400
     => UNCHANGED <<users, goals, progress>>]_vars

\* The same for requests during which no call fails
C28_RefusalChangesNothing ==
  [][req = NoRequest /\ req' # NoRequest /\ resp'.status >= 400 /\ failed' = "none"
     => UNCHANGED <<users, goals, progress>>]_vars


\* Claims about a goal's owner, checked under SpecOwners
\* The request handled in this step is op, answered with status
HandledWith(op, status) ==
  req = NoRequest /\ req'.op = op /\ resp'.status = status

\* The goals stored before a step are stored after it under the same
\* identifier and with the same owner
OwnersKept ==
  \A g \in goals : \E k \in goals' : k._id = g._id /\ k.userId = g.userId

\* C29: a created goal belongs to the authenticated account and gets a new
\* identifier, whatever owner or identifier the body names, and no step of
\* create-goal or update-goal changes the owner or the identifier of a stored
\* goal, whatever fields the body contains.
C29_OwnerFixedAtCreation ==
  [][/\ HandledWith("createGoal", 201) =>
          /\ Cardinality(goals' \ goals) = 1
          /\ \A g \in goals' \ goals :
               /\ Some(g.userId) = reqUser'
               /\ g._id \notin {k._id : k \in goals}
          /\ OwnersKept
     /\ req = NoRequest /\ req'.op = "updateGoal" =>
          /\ OwnersKept
          /\ {g._id : g \in goals'} = {g._id : g \in goals}]_vars

\* An update whose body names the other account as owner and another
\* identifier has succeeded on a goal of the authenticated account
C29_Witness ==
  /\ req.op = "updateGoal" /\ resp.status = 200
  /\ req.body.userId # Absent /\ req.body.userId # reqUser
  /\ req.body._id # Absent
  /\ \E g \in goals : g._id = req.id /\ Some(g.userId) = reqUser /\ g.status = "completed"

====
